---- MODULE Spec2Model ----
(***************************************************************************)
(* Model of the OLX listing scraper: list-page discovery and detail        *)
(* extraction (app/scraper.py), the cookie store (app/cookies.py) and the  *)
(* contact enrichment client (app/contact_fetcher.py).                     *)
(***************************************************************************)
EXTENDS Integers, Sequences, FiniteSets, TLC

VARIABLES
    navOp,            \* navigation harness: which function navigated ("none" before)
    navOuts,          \* navigation harness: outcome of each driver.get, in order
    navRes,           \* navigation harness: what the retry loop did
    argMaxPages,      \* scrape_listings: max_pages argument (0 stands for None or 0)
    argMaxListings,   \* scrape_listings: max_listings argument
    argSelected,      \* scrape_listings: selected_locations argument (NoneVal or keys)
    config_locations, \* SCRAPER_CONFIG.LOCATIONS of the run
    pc,               \* scrape_listings: position of the control flow
    todo,             \* scrape_listings: locations of locations_to_scrape not yet begun
    curLoc,           \* scrape_single_location: location_key
    page,             \* scrape_single_location: page number of the next list page
    all_basics,       \* scrape_single_location: all_basics
    location_results, \* scrape_single_location: location_results
    all_results,      \* scrape_listings: all_results
    pageLog,          \* per location, the list pages requested and what each gave
    locOutcome,       \* per location, how scrape_single_location ended
    creates,          \* outcomes of the build_driver calls of the run, in call order
    openSessions,     \* the browsers started in the run that are still running
    progressLog,      \* scrape_listings: the progress messages about failures, in order
    long_pause_frequency, \* SCRAPER_CONFIG.LONG_PAUSE_FREQUENCY of the run
    paceLog,          \* scrape_single_location: page loads, extractions and delays, in order
    mB,               \* merge harness: the basic record (item)
    mD,               \* merge harness: the detail record
    mOut,             \* merge harness: the merged record, once merged
    now,              \* the clock, in seconds since 2000-01-01T00:00:00
    cookieFile,       \* the cookie file olx_cookies.json
    lastLoad,         \* the last load_cookies call: file before, clock, result, file after
    listings,         \* fetch_contacts: listings (the dictionaries are changed in place)
    listings0,        \* fetch_contacts: listings as they were passed in
    ad_ids,           \* fetch_contacts: ad_ids
    cpc,              \* fetch_contacts: position of the control flow
    driver,           \* fetch_contacts: a browser session is open (driver is not None)
    sess,             \* fetch_contacts: where the requests session got its cookies
    adPos,            \* fetch_contacts: 1-based position in ad_ids of the ad being fetched
    attemptIdx,       \* fetch_contacts: attempt number (0-based) of the next call
    calls,            \* responses to the calls made for the ad fetched last
    adResult,         \* per position in ad_ids: "pending", "success" or "failure"
    successes,        \* fetch_contacts: successes
    failures,         \* fetch_contacts: failures
    acq,              \* session acquisition: probe answer, browser opened, login outcome
    contactLog,       \* fetch_contacts: the progress messages about failures, in order
    browsing,         \* fetch_contacts: contact requests made, and after how many of them
                      \* each _light_browsing ran (0: during the session acquisition)
    fnOp,             \* page harness: the function applied ("none" before)
    fnIn,             \* page harness: the page the function is applied to
    fnOut,            \* page harness: what the function returned
    thr,              \* app/driver.py: per thread, the call it is in and its locals
    active_drivers,   \* app/driver.py: _active_drivers
    live,             \* the browsers that are running
    nextId,           \* the number of the next browser to start
    thread_local,     \* app/driver.py: _thread_local.driver of every thread (0: unset)
    scraper_running,  \* app/web.py: scraper_state["running"]
    req,              \* app/web.py: per POST /api/start request, how far it got
    task              \* app/web.py: per request, the run_scraper_task thread it started

navVars == <<navOp, navOuts, navRes>>

crawlVars == <<argMaxPages, argMaxListings, argSelected, config_locations, pc, todo, curLoc, page,
               all_basics, location_results, all_results, pageLog, locOutcome, creates,
               openSessions, progressLog, long_pause_frequency, paceLog>>

mergeVars == <<mB, mD, mOut>>

cookieVars == <<now, cookieFile, lastLoad>>

pageVars == <<fnOp, fnIn, fnOut>>

driverVars == <<thr, active_drivers, live, nextId, thread_local>>

guardVars == <<scraper_running, req, task>>

contactVars == <<listings, listings0, ad_ids, cpc, driver, sess, adPos, attemptIdx, calls,
                 adResult, successes, failures, acq, contactLog, browsing>>

vars == <<navOp, navOuts, navRes, argMaxPages, argMaxListings, argSelected, config_locations, pc, todo,
          curLoc, page, all_basics, location_results, all_results, pageLog, locOutcome,
          creates, openSessions, progressLog, long_pause_frequency, paceLog, mB, mD, mOut, now, cookieFile, lastLoad, listings, listings0, ad_ids, cpc,
          driver, sess, adPos, attemptIdx, calls, adResult, successes, failures, acq,
          contactLog, browsing, fnOp, fnIn, fnOut, thr, active_drivers, live, nextId,
          thread_local, scraper_running, req, task>>

(***************************************************************************)
(* Python values: None, truthiness, dictionaries as functions              *)
(***************************************************************************)

\* Python's None
NoneVal == "<None>"

\* `not v` for a string-or-None value
Falsy(v) == v = NoneVal \/ v = ""

\* d.get(k)
Get(d, k) == IF k \in DOMAIN d THEN d[k] ELSE NoneVal

\* d[k] = v
Put(d, k, v) == [x \in (DOMAIN d) \cup {k} |-> IF x = k THEN v ELSE d[x]]

\* d.update(e)
Update(d, e) == [x \in (DOMAIN d) \cup (DOMAIN e) |-> IF x \in DOMAIN e THEN e[x] ELSE d[x]]

\* d.setdefault(k, v)
\* d[k] = v in place of d.setdefault(k, v)
SetDefault_Overwrite(d, k, v) == Put(d, k, v)

SetDefault(d, k, v) == IF k \in DOMAIN d THEN d ELSE Put(d, k, v)

\* the empty dictionary
EmptyDict == [x \in {} |-> ""]

(***************************************************************************)
(* Navigation with retry: scrape_list_page and extract_detail              *)
(***************************************************************************)

\* default of the max_retries parameter of scrape_list_page / extract_detail
DefaultMaxRetries == 3

\* seconds slept by scrape_list_page after a transient navigation error
ListRetryPause == 5

\* seconds slept by extract_detail between two navigation attempts
DetailRetryPause == 3

\* markers the code looks for in the message of a WebDriverException
TransientMarkers == {"ERR_NAME_NOT_RESOLVED", "ERR_INTERNET_DISCONNECTED", "ERR_CONNECTION"}

\* what one driver.get(url) can do: load, or raise with a message that holds
\* one of the markers, or raise with any other message
NavOutcome == {"ok", "other"} \cup TransientMarkers

IsTransient(o) == o \in TransientMarkers

NoNav == [result |-> "none", attempts |-> 0, slept |-> 0]

\* the for/else loop of scrape_list_page pausing and trying again after every
\* WebDriverException
RECURSIVE list_navigate_RetryAll(_, _, _)
list_navigate_RetryAll(outs, attempt, max_retries) ==
    IF attempt >= max_retries
    THEN [result |-> "empty", attempts |-> attempt, slept |-> 0]
    ELSE IF outs[attempt + 1] = "ok"
         THEN [result |-> "ok", attempts |-> attempt + 1, slept |-> 0]
         ELSE LET r == list_navigate_RetryAll(outs, attempt + 1, max_retries)
              IN  [r EXCEPT !.slept = @ + ListRetryPause]

\* the for/else loop of scrape_list_page, from 0-based attempt number `attempt`
\* result: "ok" (break), "raise" (re-raise), "empty" (else branch: return [])
RECURSIVE list_navigate(_, _, _)
list_navigate(outs, attempt, max_retries) ==
    IF attempt >= max_retries
    THEN [result |-> "empty", attempts |-> attempt, slept |-> 0]
    ELSE IF outs[attempt + 1] = "ok"
         THEN [result |-> "ok", attempts |-> attempt + 1, slept |-> 0]
         ELSE IF IsTransient(outs[attempt + 1])
              THEN LET r == list_navigate(outs, attempt + 1, max_retries)
                   IN  [r EXCEPT !.slept = @ + ListRetryPause]
              ELSE [result |-> "raise", attempts |-> attempt + 1, slept |-> 0]

\* the for loop of extract_detail, from 0-based attempt number `attempt`
\* result: "ok" (break, or the loop ran out), "raise"
RECURSIVE detail_navigate(_, _, _)
detail_navigate(outs, attempt, max_retries) ==
    IF attempt >= max_retries
    THEN [result |-> "ok", attempts |-> attempt, slept |-> 0]
    ELSE IF outs[attempt + 1] = "ok"
         THEN [result |-> "ok", attempts |-> attempt + 1, slept |-> 0]
         ELSE IF IsTransient(outs[attempt + 1]) /\ attempt < max_retries - 1
              THEN LET r == detail_navigate(outs, attempt + 1, max_retries)
                   IN  [r EXCEPT !.slept = @ + DetailRetryPause]
              ELSE [result |-> "raise", attempts |-> attempt + 1, slept |-> 0]

(***************************************************************************)
(* Configuration (app/config.py)                                           *)
(***************************************************************************)

\* SCRAPER_CONFIG.LISTINGS_PER_LOCATION
LISTINGS_PER_LOCATION == 30

\* SCRAPER_CONFIG.DEFAULT_MAX_PAGES
DEFAULT_MAX_PAGES == 3

\* SCRAPER_CONFIG.LONG_PAUSE_FREQUENCY
LONG_PAUSE_FREQUENCY == 100

\* SCRAPER_CONFIG.DETAIL_WORKERS
DETAIL_WORKERS == 8

\* max_items passed to scrape_list_page by scrape_single_location
ListPageMaxItems == 24

\* OUTPUT_CONFIG.EXCLUDED_COLUMNS
EXCLUDED_COLUMNS ==
    {"Breadcrumb Path", "Posted", "chat_available", "call_available",
     "Thumbnail Image", "proxyMobile", "roles", "Images"}

\* SCRAPER_CONFIG.LOCATIONS as shipped (LOCATIONS_LAHORE followed by
\* LOCATIONS_KARACHI), in dictionary order; every entry has its own url
LOCATIONS ==
    <<[key |-> "johar_town", name |-> "Johar Town", enabled |-> TRUE],
      [key |-> "model_town", name |-> "Model Town", enabled |-> TRUE],
      [key |-> "valencia_town", name |-> "Valencia Town", enabled |-> TRUE],
      [key |-> "askari", name |-> "Askari", enabled |-> TRUE],
      [key |-> "dha_defence", name |-> "DHA Defence (Lahore)", enabled |-> TRUE],
      [key |-> "gulshan_iqbal", name |-> "Gulshan-e-Iqbal Town", enabled |-> TRUE],
      [key |-> "gulistan_jauhar", name |-> "Gulistan-e-Jauhar", enabled |-> TRUE],
      [key |-> "fb_area", name |-> "Federal B Area", enabled |-> TRUE],
      [key |-> "north_nazimabad", name |-> "North Nazimabad", enabled |-> TRUE],
      [key |-> "nazimabad", name |-> "Nazimabad", enabled |-> TRUE],
      [key |-> "naya_nazimabad", name |-> "Naya Nazimabad", enabled |-> TRUE],
      [key |-> "north_karachi", name |-> "North Karachi", enabled |-> TRUE],
      [key |-> "new_karachi", name |-> "New Karachi", enabled |-> TRUE],
      [key |-> "saddar_town", name |-> "Saddar Town", enabled |-> TRUE],
      [key |-> "dha_defence_karachi", name |-> "DHA Defence (Karachi)", enabled |-> TRUE],
      [key |-> "clifton", name |-> "Clifton", enabled |-> TRUE],
      [key |-> "buffer_zone_north", name |-> "North Karachi - Buffer Zone", enabled |-> TRUE],
      [key |-> "buffer_zone_2", name |-> "Buffer Zone 2", enabled |-> TRUE],
      [key |-> "khalid_bin_walid", name |-> "Khalid Bin Walid Road", enabled |-> TRUE]>>

LocationKeys == {LOCATIONS[i].key : i \in DOMAIN LOCATIONS}

LocationName(k) == LOCATIONS[CHOOSE i \in DOMAIN LOCATIONS : LOCATIONS[i].key = k].name

\* a configuration of two locations: the first two of the shipped ones
TwoLocations == SubSeq(LOCATIONS, 1, 2)

\* the shipped configuration after the operator set "enabled" of askari to False
AskariDisabled ==
    [i \in DOMAIN LOCATIONS |->
        IF LOCATIONS[i].key = "askari" THEN [LOCATIONS[i] EXCEPT !.enabled = FALSE]
        ELSE LOCATIONS[i]]

(***************************************************************************)
(* scrape_list_page                                                        *)
(***************************************************************************)

\* the href test of the anchor loop: "/item/" in href and "iid-" in href
ItemPrefix == "/item/iid-"

ItemLink(n) == ItemPrefix \o ToString(n)

\* hrefs the model uses that are no item links
OtherHrefs == {"", "/profile/7", "/item/about"}

IsItemHref(h) == h \notin OtherHrefs

\* the anchor loop: first occurrences of item links, in order
RECURSIVE dedup_links(_, _)
dedup_links(anchors, seen) ==
    IF anchors = <<>> THEN <<>>
    ELSE LET href == Head(anchors) IN
         IF IsItemHref(href) /\ href \notin seen
         THEN <<href>> \o dedup_links(Tail(anchors), seen \cup {href})
         ELSE dedup_links(Tail(anchors), seen)

\* the slice without the cap
take_links_NoCap(links, max_items) == links

\* links[: (max_items or len(links))]
take_links(links, max_items) ==
    LET n == IF max_items = 0 THEN Len(links) ELSE max_items
    IN  SubSeq(links, 1, IF n < Len(links) THEN n ELSE Len(links))

\* one row of the result: the card fields found for the anchor
list_row(href, card) ==
    [Title |-> card.Title, Link |-> href, Price |-> card.Price, Location |-> card.Location]

\* scrape_list_page(driver, url, max_items): outs are the outcomes of driver.get,
\* anchors the hrefs of the anchors found once the page rendered (none: the
\* wait times out), cards the card fields by href.
\* Gives [result |-> "ok" | "raise", rows |-> the list returned].
scrape_list_page(outs, anchors, cards, max_items) ==
    LET nav == list_navigate(outs, 0, DefaultMaxRetries) IN
    IF nav.result = "raise" THEN [result |-> "raise", rows |-> <<>>]
    ELSE IF nav.result = "empty" THEN [result |-> "ok", rows |-> <<>>]
    ELSE IF \A i \in DOMAIN anchors : ~IsItemHref(anchors[i])
         THEN [result |-> "ok", rows |-> <<>>]
         ELSE LET take == take_links(dedup_links(anchors, {}), max_items)
              IN  [result |-> "ok",
                   rows |-> [i \in DOMAIN take |-> list_row(take[i], cards[take[i]])]]

(***************************************************************************)
(* extract_detail                                                          *)
(***************************************************************************)

\* str.strip() on the strings the model uses
Strip(v) ==
    IF v = " " THEN ""
    ELSE IF v = " Civic " THEN "Civic"
    ELSE IF v = " n/a " THEN "n/a"
    ELSE v

\* v.strip().upper() == "N/A"
IsNA(v) == Strip(v) \in {"N/A", "n/a", "N/a", "n/A"}

\* the href of the profile link made absolute
profile_url(href) ==
    IF href \in {"https://www.olx.com.pk/profile/7"} THEN href
    ELSE "https://www.olx.com.pk" \o href

\* the loop over extract_specs(soup): keys of specs in `keys` that are added to d
RECURSIVE add_specs(_, _, _)
add_specs(d, specs, keys) ==
    IF keys = {} THEN d
    ELSE LET k == CHOOSE x \in keys : TRUE
             d2 == IF ~Falsy(specs[k]) /\ k \notin EXCLUDED_COLUMNS /\ Falsy(Get(d, k))
                   THEN Put(d, k, specs[k]) ELSE d
         IN  add_specs(d2, specs, keys \ {k})

\* the closing loop of extract_detail: drop excluded columns, normalise values
clean_record(d) ==
    [k \in (DOMAIN d) \ EXCLUDED_COLUMNS |->
        IF d[k] = NoneVal THEN ""
        ELSE IF IsNA(d[k]) THEN ""
        ELSE Strip(d[k])]

\* image URLs of the pages the model extracts, in sorted order (sorted() orders
\* strings by code point)
ImageUrls == <<"https://cdn/a.jpg", "https://cdn/b.jpg">>

\* ", ".join(us)
RECURSIVE join_urls(_)
join_urls(us) ==
    IF us = <<>> THEN ""
    ELSE IF Len(us) = 1 THEN us[1]
    ELSE us[1] \o ", " \o join_urls(Tail(us))

\* extract_images(soup): found are the values of src and data-src of the img
\* elements and the first URL of every srcset entry of the img and source
\* elements, in document order; those that start with "http" (the ones of
\* ImageUrls) are collected in a set and joined in sorted order
extract_images(found) ==
    join_urls(SelectSeq(ImageUrls, LAMBDA u : \E i \in DOMAIN found : found[i] = u))

\* the body of extract_detail after the page is ready.  pg describes the page:
\*   jsonld  what parse_json_ld returns
\*   sel     per field, what the selector chain (extract_text, extract_ad_id)
\*           returns
\*   imgs    the image URLs of the img and source elements, in document order
\*   descFallback  text of the child nodes of the description container
\*   profileHref   href of the first profile link ("" when there is none)
\*   specs   what extract_specs returns
detail_fields(url, pg) ==
    LET d0 == Update([Link |-> url], pg.jsonld)
        d1 == SetDefault(d0, "Title", pg.sel.Title)
        d2 == SetDefault(d1, "Price", pg.sel.Price)
        desc == IF Falsy(pg.sel.Description) THEN pg.descFallback ELSE pg.sel.Description
        d3 == IF Falsy(Get(d2, "Description"))
              THEN Put(d2, "Description", IF Falsy(desc) THEN "" ELSE desc) ELSE d2
        d4 == SetDefault(d3, "Images", extract_images(pg.imgs))
        d5 == Put(d4, "Location",
                  IF Falsy(Get(d4, "Location")) THEN pg.sel.Location ELSE d4["Location"])
        d6 == IF ~Falsy(pg.sel.SellerName) THEN Put(d5, "Seller Name", pg.sel.SellerName)
              ELSE d5
        d7 == Put(d6, "Seller Since",
                  IF Falsy(pg.sel.SellerSince) THEN "" ELSE pg.sel.SellerSince)
        d8 == Put(d7, "Ad ID",
                  IF Falsy(Get(d7, "Ad ID")) THEN pg.sel.AdId ELSE d7["Ad ID"])
        d9 == IF pg.profileHref # "" /\ Falsy(Get(d8, "seller_profile"))
              THEN Put(d8, "seller_profile", profile_url(pg.profileHref)) ELSE d8
        d10 == add_specs(d9, pg.specs, DOMAIN pg.specs)
    IN  clean_record(d10)

\* extract_detail returning a placeholder title with the link when the wait
\* for the page times out
extract_detail_PartialOnTimeout(url, outs, pg) ==
    LET nav == detail_navigate(outs, 0, DefaultMaxRetries) IN
    IF nav.result = "raise" THEN [result |-> "raise", detail |-> EmptyDict]
    ELSE IF ~pg.ready THEN [result |-> "ok", detail |-> [Link |-> url, Title |-> "Loading"]]
    ELSE [result |-> "ok", detail |-> detail_fields(url, pg)]

\* extract_detail(driver, url): outs are the outcomes of driver.get, pg the page
\* (pg.ready: the body element shows up within DETAIL_WAIT).
\* Gives [result |-> "ok" | "raise", detail |-> the dictionary returned].
extract_detail(url, outs, pg) ==
    LET nav == detail_navigate(outs, 0, DefaultMaxRetries) IN
    IF nav.result = "raise" THEN [result |-> "raise", detail |-> EmptyDict]
    ELSE IF ~pg.ready THEN [result |-> "ok", detail |-> [Link |-> url]]
    ELSE [result |-> "ok", detail |-> detail_fields(url, pg)]

(***************************************************************************)
(* The merge of scrape_single_location                                     *)
(***************************************************************************)

\* the loop `for k, v in item.items()` over the keys of item in `keys`
RECURSIVE merge_items(_, _, _)
merge_items(merged, item, keys) ==
    IF keys = {} THEN merged
    ELSE LET k == CHOOSE x \in keys : TRUE
             v == item[k]
             m2 == IF k \notin DOMAIN merged \/ (Falsy(merged[k]) /\ ~Falsy(v))
                   THEN Put(merged, k, IF Falsy(v) THEN "" ELSE v)
                   ELSE merged
         IN  merge_items(m2, item, keys \ {k})

\* the merge with the basic record's values replacing the detail record's
merge_detail_BasicWins(detail, item) ==
    [k \in (DOMAIN detail) \cup (DOMAIN item) |->
        IF k \in DOMAIN item THEN item[k] ELSE detail[k]]

\* merged = dict(detail); for k, v in item.items(): ...
merge_detail(detail, item) == merge_items(detail, item, DOMAIN item)

\* the tagging with the location's name put where its key belongs
merged_record_NameAsKey(detail, item, location_key) ==
    Put(Put(merge_detail(detail, item), "Scraped_Location", LocationName(location_key)),
        "Location_Key", LocationName(location_key))

\* the record appended to location_results for one item
merged_record(detail, item, location_key) ==
    Put(Put(merge_detail(detail, item), "Scraped_Location", LocationName(location_key)),
        "Location_Key", location_key)

\* what the except clause around extract_detail makes of an exception
error_detail(item) ==
    [Link |-> IF "Link" \in DOMAIN item THEN item["Link"] ELSE "",
     error |-> "WebDriverException"]

(***************************************************************************)
(* Navigation harness: one navigation by either function, for every        *)
(* sequence of driver.get outcomes                                         *)
(***************************************************************************)

NavIdle == navOp = "none" /\ navOuts = <<>> /\ navRes = NoNav

(***************************************************************************)
(* Cookie store (app/cookies.py)                                           *)
(***************************************************************************)

\* COOKIE_MAX_AGE_DAYS
COOKIE_MAX_AGE_DAYS == 7

\* timedelta(days=COOKIE_MAX_AGE_DAYS), in seconds
MaxAge == COOKIE_MAX_AGE_DAYS * 86400

\* the clock counts seconds from 2000-01-01T00:00:00, the default the code
\* gives a record without "saved_at"
Year2000 == 0

\* no file at COOKIES_FILE
NoFile == [kind |-> "absent", stamp |-> "none", saved_at |-> 0, cookies |-> <<>>]

\* a file that is a JSON object: stamp says whether "saved_at" is there and
\* parses ("ok"), is not there ("missing"), or does not parse ("malformed");
\* cookies is data.get("cookies", [])
JsonFile(stamp, t, cookies) ==
    [kind |-> "json", stamp |-> stamp, saved_at |-> t, cookies |-> cookies]

\* a file that is no JSON ("garbage"), or JSON that is no object ("notdict")
BadFile(kind) == [kind |-> kind, stamp |-> "none", saved_at |-> 0, cookies |-> <<>>]

NoCookies == [some |-> FALSE, cookies |-> <<>>]

\* datetime.now() - saved_at > max_age, with the operands swapped
cookie_expired_Reversed(clock, saved_at) == saved_at - clock > MaxAge

\* datetime.now() - saved_at > max_age
cookie_expired(clock, saved_at) == clock - saved_at > MaxAge

\* load_cookies with a handler that removes a file it cannot read
load_cookies_RemoveCorrupt(file, clock) ==
    IF file.kind = "absent" THEN [result |-> NoCookies, file |-> file]
    ELSE IF file.kind # "json" \/ file.stamp = "malformed"
    THEN [result |-> NoCookies, file |-> NoFile]
    ELSE IF cookie_expired(clock, IF file.stamp = "missing" THEN Year2000 ELSE file.saved_at)
    THEN [result |-> NoCookies, file |-> NoFile]
    ELSE IF file.cookies = <<>> THEN [result |-> NoCookies, file |-> file]
    ELSE [result |-> [some |-> TRUE, cookies |-> file.cookies], file |-> file]

\* load_cookies(): gives what it returns (None: some = FALSE) and the file it leaves
load_cookies(file, clock) ==
    IF file.kind = "absent" THEN [result |-> NoCookies, file |-> file]
    ELSE IF file.kind # "json" \/ file.stamp = "malformed"
    THEN [result |-> NoCookies, file |-> file]        \* except Exception: return None
    ELSE IF cookie_expired(clock, IF file.stamp = "missing" THEN Year2000 ELSE file.saved_at)
    THEN [result |-> NoCookies, file |-> NoFile]
    ELSE IF file.cookies = <<>> THEN [result |-> NoCookies, file |-> file]
    ELSE [result |-> [some |-> TRUE, cookies |-> file.cookies], file |-> file]

\* save_cookies(cookies): the file it writes
save_cookies(cookies, clock) == JsonFile("ok", clock, cookies)

\* delete_cookies(): the file it leaves
delete_cookies(file) == NoFile

\* cookies the model stores
AuthCookie == [name |-> "kc_access_token", value |-> "tok"]

PlainCookie == [name |-> "lang", value |-> "en"]

CookieLists == {<<>>, <<AuthCookie>>, <<PlainCookie>>, <<PlainCookie, AuthCookie>>}

\* the cookie harness looks at saved_at within ClockSlack seconds of the expiry
ClockSlack == 2

\* the cookie harness lets the clock advance MaxTicks seconds
MaxTicks == 2

\* the clock when the model starts
StartClock == MaxAge + 86400

NoLoad == [called |-> FALSE, file |-> NoFile, now |-> 0, result |-> NoCookies,
           after |-> NoFile]

\* files the cookie harness starts from
StoredFiles ==
    {NoFile, BadFile("garbage"), BadFile("notdict"),
     JsonFile("malformed", 0, <<AuthCookie>>), JsonFile("missing", 0, <<AuthCookie>>)}
    \cup {JsonFile("ok", StartClock - MaxAge + d, c) :
            d \in (0 - ClockSlack)..ClockSlack, c \in {<<>>, <<AuthCookie>>}}

CookieIdle == now = StartClock /\ cookieFile = NoFile /\ lastLoad = NoLoad

CookieInit ==
    /\ now = StartClock
    /\ cookieFile \in StoredFiles
    /\ lastLoad = NoLoad

LoadCookies ==
    /\ LET r == load_cookies(cookieFile, now) IN
       /\ cookieFile' = r.file
       /\ lastLoad' = [called |-> TRUE, file |-> cookieFile, now |-> now,
                       result |-> r.result, after |-> r.file]
    /\ UNCHANGED now

SaveCookies ==
    /\ \E c \in CookieLists : cookieFile' = save_cookies(c, now)
    /\ UNCHANGED <<now, lastLoad>>

DeleteCookies ==
    /\ cookieFile' = delete_cookies(cookieFile)
    /\ UNCHANGED <<now, lastLoad>>

Tick ==
    /\ now < StartClock + MaxTicks
    /\ now' = now + 1
    /\ UNCHANGED <<cookieFile, lastLoad>>

(***************************************************************************)
(* Contact enrichment (app/contact_fetcher.py)                             *)
(***************************************************************************)

\* number of attempts of the retry loop of fetch_contacts: range(3)
ContactAttempts == 3

\* a failed ad is reported while failures <= 3
FailureNotices == 3

\* token_keys of _has_auth_in_cookies_list
TokenKeys == {"kc_access_token", "kc_refresh_token", "kc_id_token", "hb-session-id"}

\* {c.get("name"): c.get("value") for c in cookies}: a later cookie of the same
\* name replaces an earlier one
RECURSIVE cookie_dict(_)
cookie_dict(cookies) ==
    IF cookies = <<>> THEN EmptyDict
    ELSE LET c == cookies[Len(cookies)]
             d == cookie_dict(SubSeq(cookies, 1, Len(cookies) - 1))
         IN  Put(d, c.name, c.value)

\* a test that takes any stored cookie for an authentication cookie
has_auth_in_cookies_list_AnyCookie(cookies) == cookies # <<>>

\* _has_auth_in_cookies_list(cookies)
has_auth_in_cookies_list(cookies) ==
    LET d == cookie_dict(cookies)
    IN  \E k \in TokenKeys : k \in DOMAIN d /\ ~Falsy(d[k])

\* a probe that takes everything but a 401 for a working session
test_saved_cookies_TrustErrors(cookies, probe) ==
    IF cookies = <<>> \/ ~has_auth_in_cookies_list(cookies) THEN FALSE
    ELSE probe # "401"

\* _test_saved_cookies(cookies): probe is the answer of /api/user/ (a status, or
\* "error" for a transport error); it is only asked for when the first test passes
test_saved_cookies(cookies, probe) ==
    IF cookies = <<>> \/ ~has_auth_in_cookies_list(cookies) THEN FALSE
    ELSE probe \in {"200", "304"}

\* ad numbers of the listings the model enriches
AdNumbers == 101..104

\* re.search(r"iid-(\d+)", link): the digits, or "" when there is no match
link_ad_id(link) ==
    IF \E n \in AdNumbers : link = ItemLink(n)
    THEN ToString(CHOOSE n \in AdNumbers : link = ItemLink(n))
    ELSE ""

\* x or y
Or(x, y) == IF Falsy(x) THEN y ELSE x

\* the ad id _load_ad_ids finds for one listing ("" or None: none)
load_ad_id(item) ==
    LET ad == Or(Get(item, "Ad ID"), Or(Get(item, "ad_id"), Get(item, "id")))
    IN  IF Falsy(ad)
        THEN link_ad_id(IF "Link" \in DOMAIN item THEN item["Link"] ELSE "")
        ELSE ad

\* the ad id the id_to_listing loop finds for one listing
mapping_ad_id(item) ==
    LET ad == Or(Get(item, "Ad ID"), Get(item, "ad_id"))
    IN  IF Falsy(ad)
        THEN link_ad_id(IF "Link" \in DOMAIN item THEN item["Link"] ELSE "")
        ELSE ad

\* _load_ad_ids(listings): the ad ids, each once, in order of first appearance
RECURSIVE load_ad_ids(_, _)
load_ad_ids(items, seen) ==
    IF items = <<>> THEN <<>>
    ELSE LET ad == load_ad_id(Head(items)) IN
         IF ~Falsy(ad) /\ ad \notin seen
         THEN <<ad>> \o load_ad_ids(Tail(items), seen \cup {ad})
         ELSE load_ad_ids(Tail(items), seen)

\* id_to_listing: for an ad id, the position of the listing it maps to (the
\* last listing with that id), 0 when it maps to none
id_to_listing(items, ad_id) ==
    LET hits == {i \in DOMAIN items : mapping_ad_id(items[i]) = ad_id}
    IN  IF hits = {} THEN 0 ELSE CHOOSE i \in hits : \A j \in hits : j <= i

\* the JSON object the contact API answers with
ContactPayload ==
    [name |-> "Ali", mobile |-> "0300", Title |-> "Y", roles |-> "seller"]

\* answers of the contact API: a status with, for 200, what resp.json() makes of
\* the body ("object", "list", "null", or "invalid": it raises); "error" is a
\* transport error of sess.get
Responses ==
    {[status |-> "200", body |-> b] : b \in {"object", "list", "null", "invalid"}}
    \cup {[status |-> st, body |-> "none"] : st \in {"304", "401", "403", "429", "500", "error"}}

NoData == [kind |-> "none", dict |-> EmptyDict]

\* _fetch_contact(sess, ad_id): (data, err); err is NoneVal for None
fetch_contact(resp, ad_id) ==
    IF resp.status = "error" THEN [data |-> NoData, err |-> "ConnectionError"]
    ELSE IF resp.status = "304"
    THEN [data |-> [kind |-> "dict", dict |-> [status |-> "not_modified", ad_id |-> ad_id]],
          err |-> NoneVal]
    ELSE IF resp.status = "200"
    THEN IF resp.body = "object"
         THEN [data |-> [kind |-> "dict", dict |-> ContactPayload], err |-> NoneVal]
         ELSE IF resp.body = "list"
         THEN [data |-> [kind |-> "list", dict |-> EmptyDict], err |-> NoneVal]
         ELSE IF resp.body = "null" THEN [data |-> NoData, err |-> NoneVal]
         ELSE [data |-> NoData, err |-> "JSONDecodeError"]
    ELSE [data |-> NoData, err |-> "HTTP " \o resp.status]

\* a retry loop that no answer ends before the last attempt
attempt_succeeded_Never(r) == FALSE

\* the test that ends the retry loop: err is None and data is not None
attempt_succeeded(r) == r.err = NoneVal /\ r.data.kind # "none"

\* err and ("HTTP 401" in err or "HTTP 403" in err or "HTTP 429" in err)
needs_session_refresh(err) == err \in {"HTTP 401", "HTTP 403", "HTTP 429"}

\* the merge of a contact payload that also replaces the keys the listing holds
merge_contact_Overwrite(listing, data) ==
    [k \in (DOMAIN listing) \cup ((DOMAIN data) \ EXCLUDED_COLUMNS) |->
        IF k \in DOMAIN data /\ k \notin EXCLUDED_COLUMNS THEN data[k] ELSE listing[k]]

\* the merge that puts the payload in the place of the listing
merge_contact_Replace(listing, data) ==
    [k \in (DOMAIN data) \ EXCLUDED_COLUMNS |-> data[k]]

\* for k, v in data.items(): if k not in EXCLUDED_COLUMNS and k not in listing: ...
merge_contact(listing, data) ==
    [k \in (DOMAIN listing) \cup ((DOMAIN data) \ EXCLUDED_COLUMNS) |->
        IF k \in DOMAIN listing THEN listing[k] ELSE data[k]]

\* the tally after the retry loop with `if data is None` turned around
tally_Swapped(data) == IF data.kind = "none" THEN "success" ELSE "failure"

\* the tally after the retry loop: data is None counts a failure
tally(data) == IF data.kind = "none" THEN "failure" ELSE "success"

\* listings the model enriches
ListingWithId == Put([Title |-> "X", Link |-> ItemLink(101)], "Ad ID", "101")

ListingByLink == [Title |-> "X", Link |-> ItemLink(102)]

ListingNoId == [Title |-> "X", Link |-> "/item/about"]

ListingIdField == [Title |-> "X", Link |-> ItemLink(104), id |-> "103", roles |-> "kept"]

ListingSameId == [Title |-> "Z", Link |-> ItemLink(101), mobile |-> "0321"]

\* number of listings of the long run
ManyAds == 9

\* the listings of a long run, each with an ad id of its own
ManyListings ==
    [n \in 1..ManyAds |-> Put([Title |-> "X", Link |-> "/item/about"], "Ad ID",
                              ToString(200 + n))]

\* runs of more than ShortRun ads get the contact on every first call
ShortRun == 2

\* answers of the contact API in a run over the ad ids ids
RunResponses(ids) ==
    IF Len(ids) > ShortRun THEN {[status |-> "200", body |-> "object"]} ELSE Responses

ContactInputs ==
    {ManyListings, <<ListingWithId>>, <<ListingNoId>>, <<ListingByLink, ListingWithId>>,
     <<ListingNoId, ListingIdField>>, <<ListingWithId, ListingSameId>>,
     <<ListingNoId, ListingWithId>>}

\* cookie files fetch_contacts starts with: none, a day-old one with an
\* authentication cookie, a day-old one without, a day-old one whose
\* authentication cookie has the empty value, one older than the TTL
ContactFiles ==
    {NoFile, JsonFile("ok", StartClock - 86400, <<AuthCookie>>),
     JsonFile("ok", StartClock - 86400, <<PlainCookie>>),
     JsonFile("ok", StartClock - 86400,
              <<PlainCookie, [name |-> "kc_refresh_token", value |-> ""]>>),
     JsonFile("ok", StartClock - MaxAge - 1, <<AuthCookie>>)}

\* cookies of the browser once the user has logged in
BrowserCookies == <<PlainCookie, AuthCookie>>

\* no contact request made, _light_browsing never run
NoBrowsing == [requests |-> 0, at |-> <<>>]

\* the smallest and the largest value of random.randint(8, 12)
BrowseMin == 8

BrowseMax == 12

\* driver and i % random.randint(8, 12) == 0, draw being the number drawn
light_browsing_due(drv, i, draw) == drv /\ i % draw = 0

\* no session acquisition has taken place (opened: build_driver was called for
\* the login)
NoAcq == [probe |-> "none", opened |-> FALSE, login |-> "none"]

\* answers of /api/user/ to the probe of _test_saved_cookies
ProbeAnswers == {"200", "304", "401", "error"}

ContactIdle ==
    /\ acq = NoAcq
    /\ contactLog = <<>>
    /\ browsing = NoBrowsing
    /\ listings = <<>>
    /\ listings0 = <<>>
    /\ ad_ids = <<>>
    /\ cpc = "idle"
    /\ driver = FALSE
    /\ sess = "none"
    /\ adPos = 0
    /\ attemptIdx = 0
    /\ calls = <<>>
    /\ adResult = <<>>
    /\ successes = 0
    /\ failures = 0

ContactInit ==
    /\ acq = NoAcq
    /\ contactLog = <<>>
    /\ browsing = NoBrowsing
    /\ listings \in ContactInputs
    /\ listings0 = listings
    /\ ad_ids = <<>>
    /\ cpc = "begin"
    /\ driver = FALSE
    /\ sess = "none"
    /\ adPos = 0
    /\ attemptIdx = 0
    /\ calls = <<>>
    /\ adResult = <<>>
    /\ successes = 0
    /\ failures = 0
    /\ now = StartClock
    /\ cookieFile \in ContactFiles
    /\ lastLoad = NoLoad

\* fetch_contacts up to the id_to_listing loop: without ad ids it returns
BeginEnrich ==
    /\ cpc = "begin"
    /\ LET ids == load_ad_ids(listings, {}) IN
       /\ ad_ids' = ids
       /\ adResult' = [i \in DOMAIN ids |-> "pending"]
       /\ cpc' = IF ids = <<>> THEN "done" ELSE "acquire"
    /\ UNCHANGED <<listings, listings0, driver, sess, adPos, attemptIdx, calls,
                   successes, failures, acq, contactLog, browsing, cookieVars>>

\* a login wait whose timeout is swallowed: enrichment goes on with the browser
login_branch_KeepGoing(login) ==
    [cpc |-> "fetch", driver |-> TRUE, sess |-> "browser", adPos |-> 1]

\* the try block around _wait_for_login: a detected login gives a session from
\* the browser's cookies; TimeoutError closes the browser and is re-raised
login_branch(login) ==
    IF login = "detected"
    THEN [cpc |-> "fetch", driver |-> TRUE, sess |-> "browser", adPos |-> 1]
    ELSE [cpc |-> "failed", driver |-> FALSE, sess |-> "none", adPos |-> 0]

\* saved_cookies = load_cookies(): a file older than the TTL is removed by it
LoadSaved ==
    /\ cpc = "acquire"
    /\ LET r == load_cookies(cookieFile, now) IN
       /\ lastLoad' = [called |-> TRUE, file |-> cookieFile, now |-> now,
                       result |-> r.result, after |-> r.file]
       /\ cookieFile' = r.file
    /\ cpc' = "probe"
    /\ UNCHANGED <<listings, listings0, ad_ids, driver, sess, adPos, attemptIdx, calls,
                   adResult, successes, failures, now, acq, contactLog, browsing>>

\* if saved_cookies and _test_saved_cookies(saved_cookies): the session is made
\* of the saved cookies, else a browser is needed
ProbeSaved ==
    /\ cpc = "probe"
    /\ \E probe \in ProbeAnswers :
         LET saved == lastLoad.result
             probed == /\ saved.some
                       /\ saved.cookies # <<>>
                       /\ has_auth_in_cookies_list(saved.cookies)
             saved_ok == saved.some /\ test_saved_cookies(saved.cookies, probe)
         IN  /\ acq' = [probe |-> IF saved_ok \/ probed THEN probe ELSE "none",
                        opened |-> FALSE, login |-> "none"]
             /\ sess' = IF saved_ok THEN "saved" ELSE sess
             /\ cpc' = IF saved_ok THEN "fetch" ELSE "open"
             /\ adPos' = IF saved_ok THEN 1 ELSE adPos
    /\ UNCHANGED <<listings, listings0, ad_ids, driver, attemptIdx, calls, adResult,
                   successes, failures, contactLog, browsing, cookieVars>>

\* what build_driver(headless=False) can do: return a browser, or raise
\* RuntimeError
BrowserStarts == {"ok", "failed"}

\* driver = build_driver(headless=False), ahead of the try block: when it raises,
\* fetch_contacts ends with its error
OpenBrowser ==
    /\ cpc = "open"
    /\ \E out \in BrowserStarts :
         /\ driver' = (out = "ok")
         /\ cpc' = IF out = "ok" THEN "login" ELSE "failed"
    /\ acq' = [acq EXCEPT !.opened = TRUE]
    /\ UNCHANGED <<listings, listings0, ad_ids, sess, adPos, attemptIdx, calls, adResult,
                   successes, failures, contactLog, browsing, cookieVars>>

\* largest number of turns of the login wait that find no login
MaxLoginPolls == 1

\* turns of the login wait that may find no login in a run over the ad ids ids:
\* in runs of more than ShortRun ads the first turn finds the login or the
\* time is up
LoginPolls(ids) == IF Len(ids) > ShortRun THEN 0 ELSE MaxLoginPolls

\* _light_browsing(driver) ran, after the contact requests made so far
light_browsing(b) == [b EXCEPT !.at = Append(@, b.requests)]

\* one turn of the while loop of _wait_for_login in which _has_auth_cookies is
\* False: _light_browsing and a sleep
LoginPoll ==
    /\ cpc = "login"
    /\ Len(browsing.at) < LoginPolls(ad_ids)
    /\ browsing' = light_browsing(browsing)
    /\ UNCHANGED <<listings, listings0, ad_ids, cpc, driver, sess, adPos, attemptIdx,
                   calls, adResult, successes, failures, acq, contactLog, cookieVars>>

\* the end of _wait_for_login and what follows in the try block: the login is
\* detected, the cookies are saved, the session made of the browser's cookies
\* and _light_browsing run; or the time is up, TimeoutError is raised, the
\* browser is closed and the error re-raised
LoginEnds ==
    /\ cpc = "login"
    /\ \E login \in {"detected", "timeout"} :
         LET b == login_branch(login) IN
         /\ sess' = b.sess
         /\ driver' = b.driver
         /\ cpc' = b.cpc
         /\ adPos' = b.adPos
         /\ cookieFile' = IF login = "detected" THEN save_cookies(BrowserCookies, now)
                          ELSE cookieFile
         /\ browsing' = IF b.cpc = "fetch" THEN light_browsing(browsing) ELSE browsing
         /\ acq' = [acq EXCEPT !.login = login]
    /\ UNCHANGED <<listings, listings0, ad_ids, attemptIdx, calls, adResult, successes,
                   failures, now, lastLoad, contactLog>>

\* one turn of the retry loop for ad_ids[adPos]; when the loop ends with it (a
\* break, or the third attempt), the tally and the merge that follow the loop,
\* and the driver.quit() and return that follow the last ad
ContactAttempt ==
    /\ cpc = "fetch"
    /\ \E resp \in RunResponses(ad_ids), draw \in BrowseMin..BrowseMax :
         LET ad_id == ad_ids[adPos]
             r == fetch_contact(resp, ad_id)
             ok == attempt_succeeded(r)
             over == ok \/ attemptIdx + 1 >= ContactAttempts
             at == id_to_listing(listings, ad_id)
             last == adPos = Len(ad_ids)
             made == browsing.requests + 1
         IN  /\ browsing' = [requests |-> made,
                             at |-> IF over /\ light_browsing_due(driver, adPos, draw)
                                    THEN Append(browsing.at, made)
                                    ELSE browsing.at]
             /\ calls' = IF attemptIdx = 0 THEN <<resp>> ELSE Append(calls, resp)
             /\ IF ~ok /\ needs_session_refresh(r.err)
                THEN IF driver
                     THEN /\ sess' = "browser"
                          /\ UNCHANGED cookieFile
                     ELSE /\ cookieFile' = delete_cookies(cookieFile)
                          /\ UNCHANGED sess
                ELSE UNCHANGED <<sess, cookieFile>>
             /\ IF over
                THEN /\ adResult' = [adResult EXCEPT ![adPos] = tally(r.data)]
                     /\ successes' = successes + (IF tally(r.data) = "success" THEN 1 ELSE 0)
                     /\ failures' = failures + (IF tally(r.data) = "failure" THEN 1 ELSE 0)
                     /\ listings' = IF tally(r.data) = "success" /\ at # 0 /\ r.data.kind = "dict"
                                    THEN [listings EXCEPT ![at] = merge_contact(@, r.data.dict)]
                                    ELSE listings
                     /\ contactLog' =
                          IF tally(r.data) = "failure" /\ failures + 1 <= FailureNotices
                          THEN Append(contactLog, [about |-> "ad", ad_id |-> ad_id])
                          ELSE contactLog
                     /\ attemptIdx' = 0
                     /\ adPos' = IF last THEN adPos ELSE adPos + 1
                     /\ cpc' = IF last THEN "done" ELSE "fetch"
                     /\ driver' = IF last THEN FALSE ELSE driver
                ELSE /\ attemptIdx' = attemptIdx + 1
                     /\ UNCHANGED <<adResult, successes, failures, listings, adPos, cpc,
                                    driver, contactLog>>
    /\ UNCHANGED <<listings0, ad_ids, now, lastLoad, acq>>

(***************************************************************************)
(* Merge harness: merge_detail on every pair of small records              *)
(***************************************************************************)

\* keys of the records the harness merges
MergeKeys == {"Title", "Link", "Price", "Location"}

\* values of a basic record (a list row holds strings; the merge also guards
\* against None)
BasicValues == {"", "basic", NoneVal}

\* values of a detail record (extract_detail returns cleaned strings)
DetailValues == {"", "detail"}

DetailRecords == UNION {[S -> DetailValues] : S \in SUBSET MergeKeys}

NotMerged == [done |-> FALSE, rec |-> EmptyDict]

MergeIdle == mB = EmptyDict /\ mD = EmptyDict /\ mOut = NotMerged

MergeInit ==
    /\ mB \in [MergeKeys -> BasicValues]
    /\ mD \in DetailRecords
    /\ mOut = NotMerged

MergeRecords ==
    /\ ~mOut.done
    /\ mOut' = [done |-> TRUE, rec |-> merge_detail(mD, mB)]
    /\ UNCHANGED <<mB, mD>>

(***************************************************************************)
(* scrape_listings / scrape_single_location                                *)
(***************************************************************************)

\* largest max_pages argument the model passes
MaxPagesArg == 1

\* number of listings on a short result page
SmallPage == 2

\* only the first DetailFaultWindow detail pages of a location may fail to load
\* or to render; the later ones load
DetailFaultWindow == 1

\* max_pages = max_pages or SCRAPER_CONFIG.DEFAULT_MAX_PAGES
max_pages_of(arg) == IF arg = 0 THEN DEFAULT_MAX_PAGES ELSE arg

\* max_listings_per_location = SCRAPER_CONFIG.LISTINGS_PER_LOCATION
max_listings_per_location_of(arg) == LISTINGS_PER_LOCATION

\* keys of the enabled locations, in configuration order
RECURSIVE enabled_keys(_)
enabled_keys(locs) ==
    IF locs = <<>> THEN <<>>
    ELSE (IF Head(locs).enabled THEN <<Head(locs).key>> ELSE <<>>)
         \o enabled_keys(Tail(locs))

\* the keys of SCRAPER_CONFIG.LOCATIONS of the run
ConfigKeys == {config_locations[i].key : i \in DOMAIN config_locations}

\* keys of selected that are configured, each once, in order of first mention
RECURSIVE configured_keys(_, _)
configured_keys(selected, seen) ==
    IF selected = <<>> THEN <<>>
    ELSE IF Head(selected) \in ConfigKeys /\ Head(selected) \notin seen
         THEN <<Head(selected)>> \o configured_keys(Tail(selected), seen \cup {Head(selected)})
         ELSE configured_keys(Tail(selected), seen)

\* locations_to_scrape (its keys, in iteration order)
locations_to_scrape(sel) ==
    IF ~sel.given THEN enabled_keys(config_locations) ELSE configured_keys(sel.keys, {})

\* the selection of the one location model_town
OneLocation == [given |-> TRUE, keys |-> <<"model_town">>]

\* the model lets result pages differ in length, and pages and browsers fail,
\* only in runs over at most BusyLocations locations; in a longer run every
\* result page shows SmallPage listings, every page loads, and every browser
\* but the first starts
BusyLocations == 2

LongRun == Len(locations_to_scrape(argSelected)) > BusyLocations

\* the site: result page `p` of a location shows the n listings that follow the
\* ListPageMaxItems listings of each earlier page; after `shift` new listings were
\* posted since the crawl began, the page starts `shift` listings earlier
site_anchors(p, n, shift) ==
    [i \in 1..n |-> ItemLink((p - 1) * ListPageMaxItems + i - shift)]

\* by how many listings a result page can have shifted: the model lets the site
\* shift only in runs of the one selected location, on the pages after the first
SiteShifts(sel, p) == IF sel = OneLocation /\ p > 1 THEN {0, 1} ELSE {0}

\* the card of every listing on the site
SiteCard == [Title |-> "Civic", Price |-> "Rs 1", Location |-> "Lahore"]

site_cards(anchors) == [h \in {anchors[i] : i \in DOMAIN anchors} |-> SiteCard]

\* numbers of anchors a result page shows: none, a short page, an overfull page
AnchorCounts == IF LongRun THEN {SmallPage} ELSE {0, SmallPage, ListPageMaxItems + 1}

\* driver.get outcomes the crawl is run against
CrawlNavOuts ==
    IF LongRun THEN {<<"ok", "ok", "ok">>}
    ELSE {<<"ok", "ok", "ok">>,
          <<"ERR_CONNECTION", "ERR_CONNECTION", "ERR_CONNECTION">>,
          <<"ERR_CONNECTION", "other", "ok">>}

\* a detail page that renders, with structured data and selector results
SiteDetailPage ==
    [ready |-> TRUE,
     jsonld |-> [Title |-> "Honda Civic", Price |-> "PKR 500000"],
     sel |-> [Title |-> "Civic", Price |-> "Rs 1", Description |-> "",
              Location |-> "", SellerName |-> "Ali", SellerSince |-> "", AdId |-> "N/A"],
     imgs |-> <<>>,
     descFallback |-> "clean car",
     profileHref |-> "",
     specs |-> [year |-> "2015"]]

\* a detail page whose body never shows up
StuckDetailPage == [SiteDetailPage EXCEPT !.ready = FALSE]

\* at most MaxDetailFaults detail pages of a run fail to load or to render
MaxDetailFaults == 1

\* number of records of rs that come from a detail page that failed to load or
\* to render (every record of a rendered page has "Seller Since")
RECURSIVE fault_count(_)
fault_count(rs) ==
    IF rs = <<>> THEN 0
    ELSE (IF "Seller Since" \in DOMAIN Head(rs) THEN 0 ELSE 1) + fault_count(Tail(rs))

\* the listings of a location whose detail page may fail: the first
\* DetailFaultWindow ones in a run of selected locations, the first one in a run
\* of all locations
fault_window == IF argSelected.given THEN DetailFaultWindow ELSE 1

\* what loading one detail page can be like: <<driver.get outcomes, page>>
DetailScenarios(idx, faults) ==
    IF idx < fault_window /\ faults < MaxDetailFaults /\ ~LongRun
    THEN {<<<<"ok", "ok", "ok">>, SiteDetailPage>>,
          <<<<"ok", "ok", "ok">>, StuckDetailPage>>,
          <<<<"ERR_CONNECTION", "ERR_CONNECTION", "ERR_CONNECTION">>, SiteDetailPage>>}
    ELSE {<<<<"ok", "ok", "ok">>, SiteDetailPage>>}

\* at most MaxCreateFaults build_driver calls of a run fail
MaxCreateFaults == 1

\* number of build_driver calls among cs that failed
create_faults(cs) == Cardinality({i \in DOMAIN cs : cs[i] = "failed"})

\* the browsers of the run that nothing holds any more: a Chrome the primary
\* strategy of build_driver started and gave up, a browser whose quit() raised
strays(open) == {x \in open : x.role \in {"abandoned", "unquit"}}

\* at most MaxStrays browsers of a run are given up or fail to quit
MaxStrays == 1

\* the model lets browsers be given up or fail to quit only in long runs
StrayRun == LongRun

\* build_driver returned a browser and started no other
CreatedOk == [result |-> "ok", abandoned |-> FALSE]

\* the browsers running after the build_driver call number id that did c: the
\* Chrome the primary strategy started before execute_cdp_cmd raised (neither
\* quit nor returned), and the browser returned, of the phase role
\* (master_driver: "list", detail_driver: "detail")
open_driver(open, id, role, key, c) ==
    open \cup (IF c.abandoned THEN {[id |-> id, role |-> "abandoned", key |-> key]} ELSE {})
         \cup (IF c.result = "ok" THEN {[id |-> id, role |-> role, key |-> key]} ELSE {})

\* the finally clauses of scrape_single_location: master_driver.quit(),
\* detail_driver.quit() inside try, except Exception: pass; a browser whose
\* quit() raised keeps running
quit_driver(open, role, q) ==
    IF q = "quit" THEN {x \in open : x.role # role}
    ELSE {IF x.role = role THEN [x EXCEPT !.role = "unquit"] ELSE x : x \in open}

\* what a build_driver call can do after the calls cs: the primary strategy
\* gives a browser; or it fails, before Chrome started or after (execute_cdp_cmd
\* raises and the Chrome is abandoned), and the fallback gives a browser or
\* fails too, on which RuntimeError is raised; the model lets browsers fail only
\* in runs whose detail pages all load, and in a long run only the first one,
\* and lets a Chrome be abandoned only in the runs of StrayRun
CreateOutcomes(cs, page_faults, open) ==
    LET faulty == page_faults = 0 /\ (~LongRun \/ cs = <<>>)
        may_fail == faulty /\ create_faults(cs) < MaxCreateFaults
        may_leak == faulty /\ StrayRun /\ Cardinality(strays(open)) < MaxStrays
    IN  {CreatedOk}
        \cup (IF may_fail THEN {[result |-> "failed", abandoned |-> FALSE]} ELSE {})
        \cup (IF may_leak THEN {[result |-> "ok", abandoned |-> TRUE]} ELSE {})
        \cup (IF may_fail /\ may_leak THEN {[result |-> "failed", abandoned |-> TRUE]}
              ELSE {})

\* what the quit() of a finally clause can do after the build_driver calls cs:
\* end the browser, or raise; the model lets it raise only in the runs of
\* StrayRun whose detail pages all load, and in a long run only for the first
\* browser
QuitResults(cs, page_faults, open) ==
    IF page_faults = 0 /\ (~LongRun \/ Len(cs) = 1) /\ StrayRun
       /\ Cardinality(strays(open)) < MaxStrays
    THEN {"quit", "raised"}
    ELSE {"quit"}

NoSelection == [given |-> FALSE, keys |-> <<>>]

\* a rest frequency small enough for a location's listings to reach it
ShortFrequency == 2

\* max_listings arguments the crawl is run with: 3, and for runs of the one
\* selected location 1 as well
MaxListingsArgs(sel) == IF sel = OneLocation THEN {1, 3} ELSE {3}

\* values of SCRAPER_CONFIG.LONG_PAUSE_FREQUENCY the crawl is run with: the
\* shipped one, and for runs of the one selected location a small one
PauseFrequencies(sel) ==
    IF sel = OneLocation THEN {LONG_PAUSE_FREQUENCY, ShortFrequency}
    ELSE {LONG_PAUSE_FREQUENCY}

\* selected_locations arguments the model passes
Selections ==
    {NoSelection,
     OneLocation,
     [given |-> TRUE, keys |-> <<"nowhere">>],
     [given |-> TRUE, keys |-> <<"nowhere", "askari">>]}

\* the configurations the crawl is run with: the shipped one, and with no
\* selection a configuration of two locations as well, and with no selection or
\* a selection that names askari the one that has askari disabled
Configurations(sel) ==
    {LOCATIONS}
    \cup (IF ~sel.given THEN {TwoLocations} ELSE {})
    \cup (IF ~sel.given \/ (sel.keys # <<>> /\ sel.keys[Len(sel.keys)] = "askari")
          THEN {AskariDisabled} ELSE {})

CrawlIdle ==
    /\ argMaxPages = 0
    /\ argMaxListings = 0
    /\ argSelected = NoSelection
    /\ config_locations = LOCATIONS
    /\ pc = "idle"
    /\ todo = <<>>
    /\ curLoc = ""
    /\ page = 0
    /\ all_basics = <<>>
    /\ location_results = <<>>
    /\ all_results = <<>>
    /\ pageLog = [k \in LocationKeys |-> <<>>]
    /\ locOutcome = [k \in LocationKeys |-> "none"]
    /\ creates = <<>>
    /\ openSessions = {}
    /\ progressLog = <<>>
    /\ long_pause_frequency = LONG_PAUSE_FREQUENCY
    /\ paceLog = <<>>

CrawlInit ==
    /\ argSelected \in Selections
    /\ config_locations \in Configurations(argSelected)
    /\ argMaxPages \in 0..MaxPagesArg
    /\ argMaxListings \in MaxListingsArgs(argSelected)
    /\ pc = "start"
    /\ todo = <<>>
    /\ curLoc = ""
    /\ page = 0
    /\ all_basics = <<>>
    /\ location_results = <<>>
    /\ all_results = <<>>
    /\ pageLog = [k \in LocationKeys |-> <<>>]
    /\ locOutcome = [k \in LocationKeys |-> "none"]
    /\ creates = <<>>
    /\ openSessions = {}
    /\ progressLog = <<>>
    /\ long_pause_frequency \in PauseFrequencies(argSelected)
    /\ paceLog = <<>>

\* scrape_listings up to the loop over locations_to_scrape
StartScrape ==
    /\ pc = "start"
    /\ LET locs == locations_to_scrape(argSelected) IN
       /\ todo' = locs
       /\ pc' = IF locs = <<>> THEN "done" ELSE "location"
    /\ UNCHANGED <<argMaxPages, argMaxListings, argSelected, config_locations, curLoc, page, all_basics,
                   location_results, all_results, pageLog, locOutcome, creates,
                   openSessions, progressLog, long_pause_frequency, paceLog>>

\* the progress message of the except clause of the location loop
location_error(key) == [about |-> "location", key |-> key, item |-> 0]

\* the progress message of the except clause around extract_detail
listing_error(key, n) == [about |-> "listing", key |-> key, item |-> n]

\* the loop over locations_to_scrape takes the next location;
\* scrape_single_location up to its page loop: it builds the master driver, and
\* when that raises, the except clause of the location loop takes the error
BeginLocation ==
    /\ pc = "location"
    /\ todo # <<>>
    /\ curLoc' = Head(todo)
    /\ todo' = Tail(todo)
    /\ page' = 1
    /\ all_basics' = <<>>
    /\ location_results' = <<>>
    /\ paceLog' = <<>>
    /\ \E c \in CreateOutcomes(creates, fault_count(all_results), openSessions) :
         /\ creates' = Append(creates, c.result)
         /\ openSessions' = open_driver(openSessions, Len(creates) + 1, "list",
                                        Head(todo), c)
         /\ IF c.result = "ok"
            THEN /\ pc' = "list"
                 /\ UNCHANGED <<locOutcome, progressLog>>
            ELSE /\ pc' = IF Tail(todo) = <<>> THEN "done" ELSE "location"
                 /\ locOutcome' = [locOutcome EXCEPT ![Head(todo)] = "no_session"]
                 /\ progressLog' = Append(progressLog, location_error(Head(todo)))
    /\ UNCHANGED <<argMaxPages, argMaxListings, argSelected, config_locations, all_results, pageLog,
                   long_pause_frequency>>

\* a location loop that ends with the first location
AfterLocation_Abort == "done"

\* where the control goes once scrape_single_location has returned or raised
AfterLocation == IF todo = <<>> THEN "done" ELSE "location"

\* entries of paceLog
page_load(p) == [ev |-> "page", n |-> p, kind |-> "none"]

extraction(n) == [ev |-> "extract", n |-> n, kind |-> "none"]

delay(kind) == [ev |-> "delay", n |-> 0, kind |-> kind]

\* the sleep_jitter that ends a turn of the page loop: it is reached unless the
\* turn left the loop with a break
page_pace(rows, collected, p, cap) ==
    IF rows = <<>> \/ Len(collected) >= cap THEN <<>>
    ELSE <<delay("short")>>

\* a detail loop that never rests
item_pace_NeverRests(n, freq) == <<delay("short")>>

\* the polite delay that ends a turn of the detail loop, n being idx + 1
item_pace(n, freq) ==
    IF n % freq = 0 THEN <<delay("long")>> ELSE <<delay("short")>>

\* the page loop without the break on reaching the target
page_loop_ends_NoCap(rows, collected, p, maxPages, cap) ==
    rows = <<>> \/ p >= maxPages

\* the page loop stops after this page: `if not basics: break`, the break on
\* reaching the target, or range(1, max_pages + 1) is used up
page_loop_ends(rows, collected, p, maxPages, cap) ==
    rows = <<>> \/ Len(collected) >= cap \/ p >= maxPages

\* all_basics after a page that gave rows: extend, then truncate at the target
extend_basics(basics, rows, cap) ==
    LET ext == basics \o rows
    IN  IF rows = <<>> THEN basics
        ELSE IF Len(ext) >= cap THEN SubSeq(ext, 1, cap) ELSE ext

\* one turn of the page loop of scrape_single_location, and what follows the
\* loop when this turn ends it: the return without listings, or the build of
\* the detail driver (which may raise)
ListPage ==
    /\ pc = "list"
    /\ \E outs \in CrawlNavOuts, n \in AnchorCounts,
          c \in CreateOutcomes(creates, fault_count(all_results), openSessions),
          q \in QuitResults(creates, fault_count(all_results), openSessions),
          shift \in SiteShifts(argSelected, page) :
         LET anchors == site_anchors(page, n, shift)
             r == scrape_list_page(outs, anchors, site_cards(anchors), ListPageMaxItems)
             cap == max_listings_per_location_of(argMaxListings)
             ab == extend_basics(all_basics, r.rows, cap)
             ends == page_loop_ends(r.rows, all_basics \o r.rows, page,
                                    max_pages_of(argMaxPages), cap)
         IN  /\ pageLog' = [pageLog EXCEPT ![curLoc] =
                               Append(@, [page |-> page, result |-> r.result,
                                          count |-> Len(r.rows)])]
             /\ paceLog' = Append(paceLog, page_load(page))
                             \o (IF r.result = "raise" THEN <<>>
                                 ELSE page_pace(r.rows, all_basics \o r.rows, page, cap))
             /\ IF r.result = "raise"
                THEN /\ pc' = AfterLocation
                     /\ locOutcome' = [locOutcome EXCEPT ![curLoc] = "raised"]
                     /\ c = CreatedOk
                     /\ openSessions' = quit_driver(openSessions, "list", q)
                     /\ progressLog' = Append(progressLog, location_error(curLoc))
                     /\ UNCHANGED <<all_basics, page, creates>>
                ELSE IF ~ends \/ ab = <<>>
                THEN /\ all_basics' = ab
                     /\ page' = IF ends THEN page ELSE page + 1
                     /\ pc' = IF ~ends THEN "list" ELSE AfterLocation
                     /\ locOutcome' = IF ends
                                      THEN [locOutcome EXCEPT ![curLoc] = "returned"]
                                      ELSE locOutcome
                     /\ c = CreatedOk
                     /\ ends \/ q = "quit"
                     /\ openSessions' = IF ends THEN quit_driver(openSessions, "list", q)
                                        ELSE openSessions
                     /\ UNCHANGED <<creates, progressLog>>
                ELSE /\ all_basics' = ab
                     /\ page' = page
                     /\ creates' = Append(creates, c.result)
                     /\ pc' = IF c.result = "ok" THEN "detail" ELSE AfterLocation
                     /\ locOutcome' = IF c.result = "ok" THEN locOutcome
                                      ELSE [locOutcome EXCEPT ![curLoc] = "no_session"]
                     /\ openSessions' =
                          open_driver(quit_driver(openSessions, "list", q),
                                      Len(creates) + 1, "detail", curLoc, c)
                     /\ progressLog' = IF c.result = "ok" THEN progressLog
                                       ELSE Append(progressLog, location_error(curLoc))
    /\ UNCHANGED <<argMaxPages, argMaxListings, argSelected, config_locations, todo, curLoc,
                   location_results, all_results, long_pause_frequency>>

\* all_results with the records of a location put in front
extend_results_Prepend(results, lr) == lr \o results

\* all_results.extend(location_results)
extend_results(results, lr) == results \o lr

\* the detail loop with the try/except around extract_detail left out: an
\* exception of extract_detail ends scrape_single_location
DetailItem_NoIsolation ==
    /\ pc = "detail"
    /\ LET idx == Len(location_results)
           item == all_basics[idx + 1]
       IN  \E sc \in DetailScenarios(idx, fault_count(all_results \o location_results)
                                          + MaxDetailFaults * create_faults(creates)),
              q \in QuitResults(creates, fault_count(all_results \o location_results),
                                openSessions) :
             LET r == extract_detail(item["Link"], sc[1], sc[2])
                 lr == Append(location_results, merged_record(r.detail, item, curLoc))
             IN  IF r.result = "raise"
                 THEN /\ pc' = AfterLocation
                      /\ locOutcome' = [locOutcome EXCEPT ![curLoc] = "raised"]
                      /\ openSessions' = quit_driver(openSessions, "detail", q)
                      /\ progressLog' = Append(progressLog, location_error(curLoc))
                      /\ paceLog' = Append(paceLog, extraction(idx + 1))
                      /\ UNCHANGED <<location_results, all_results>>
                 ELSE /\ location_results' = lr
                      /\ paceLog' = Append(paceLog, extraction(idx + 1))
                                      \o item_pace(idx + 1, long_pause_frequency)
                      /\ UNCHANGED progressLog
                      /\ IF Len(lr) = Len(all_basics)
                         THEN /\ all_results' = extend_results(all_results, lr)
                              /\ pc' = AfterLocation
                              /\ locOutcome' = [locOutcome EXCEPT ![curLoc] = "returned"]
                              /\ openSessions' = quit_driver(openSessions, "detail", q)
                         ELSE /\ q = "quit"
                              /\ UNCHANGED <<all_results, pc, locOutcome, openSessions>>
    /\ UNCHANGED <<argMaxPages, argMaxListings, argSelected, config_locations, todo, curLoc, page,
                   all_basics, pageLog, creates, long_pause_frequency>>

\* one turn of the detail loop of scrape_single_location; after the last item
\* the function returns and scrape_listings extends all_results
DetailItem ==
    /\ pc = "detail"
    /\ LET idx == Len(location_results)
           item == all_basics[idx + 1]
       IN  \E sc \in DetailScenarios(idx, fault_count(all_results \o location_results)
                                          + MaxDetailFaults * create_faults(creates)),
              q \in QuitResults(creates, fault_count(all_results \o location_results),
                                openSessions) :
             LET r == extract_detail(item["Link"], sc[1], sc[2])
                 detail == IF r.result = "raise" THEN error_detail(item) ELSE r.detail
                 lr == Append(location_results, merged_record(detail, item, curLoc))
             IN  /\ location_results' = lr
                 /\ paceLog' = Append(paceLog, extraction(idx + 1))
                                 \o item_pace(idx + 1, long_pause_frequency)
                 /\ progressLog' = IF r.result = "raise"
                                   THEN Append(progressLog, listing_error(curLoc, idx + 1))
                                   ELSE progressLog
                 /\ IF Len(lr) = Len(all_basics)
                    THEN /\ all_results' = extend_results(all_results, lr)
                         /\ pc' = AfterLocation
                         /\ locOutcome' = [locOutcome EXCEPT ![curLoc] = "returned"]
                         /\ openSessions' = quit_driver(openSessions, "detail", q)
                    ELSE /\ q = "quit"
                         /\ UNCHANGED <<all_results, pc, locOutcome, openSessions>>
    /\ UNCHANGED <<argMaxPages, argMaxListings, argSelected, config_locations, todo, curLoc, page,
                   all_basics, pageLog, creates, long_pause_frequency>>

\* a detail phase that hands every listing still to do to the one detail
\* browser at once
in_flight_AllAtOnce ==
    IF pc = "detail"
    THEN {[item |-> i, session |-> x.id] :
             i \in (Len(location_results) + 1)..Len(all_basics),
             x \in {y \in openSessions : y.role = "detail"}}
    ELSE {}

\* the calls of extract_detail under way: the for loop of the detail phase calls
\* it for one listing at a time, the next one of all_basics, on detail_driver
in_flight ==
    IF pc = "detail"
    THEN {[item |-> Len(location_results) + 1, session |-> x.id] :
             x \in {y \in openSessions : y.role = "detail"}}
    ELSE {}

(***************************************************************************)
(* Page harness: scrape_list_page and extract_detail on small pages        *)
(***************************************************************************)

\* longest anchor list of a list page in the harness
MaxAnchors == 3

\* largest max_items argument in the harness (0: none given)
MaxItemsArg == 3

\* hrefs of the anchors of a list page in the harness
HarnessHrefs == {ItemLink(1), ItemLink(2), "/item/about"}

RECURSIVE SeqsUpTo(_, _)
SeqsUpTo(S, n) ==
    IF n = 0 THEN {<<>>}
    ELSE LET shorter == SeqsUpTo(S, n - 1)
         IN  shorter \cup {Append(q, x) : q \in {r \in shorter : Len(r) = n - 1}, x \in S}

ListInputs ==
    [kind : {"list"}, anchors : SeqsUpTo(HarnessHrefs, MaxAnchors), max_items : 0..MaxItemsArg]

\* what parse_json_ld returns for the detail pages of the harness
HarnessJsonLd ==
    {EmptyDict,
     [Price |-> "PKR 500000"],
     [Title |-> "Honda Civic", Price |-> "PKR 500000"],
     [Title |-> "Honda Civic"],
     [Price |-> "N/A"],
     Put([Title |-> "Honda Civic", Description |-> "one owner",
          Images |-> "https://cdn/z.jpg"], "Seller Name", "Ahmed Motors")}

\* what the selector chain gives for the price on the detail pages of the harness
HarnessSelPrices == {"", "Rs 1", "PKR 500000", " n/a "}

\* the image URLs found on the detail pages of the harness
HarnessImgs ==
    {<<>>, <<"https://cdn/b.jpg", "/static/logo.png", "https://cdn/a.jpg",
             "https://cdn/b.jpg">>}

DetailInputs ==
    {[kind |-> "detail",
      page |-> [SiteDetailPage EXCEPT !.jsonld = j, !.sel.Price = sp, !.ready = rd,
                                      !.specs = spc, !.sel.SellerName = sn,
                                      !.imgs = im]] :
        j \in HarnessJsonLd, sp \in HarnessSelPrices, rd \in BOOLEAN,
        spc \in {[year |-> "2015"], [price |-> "Rs 2"]}, sn \in {"", "Ali"},
        im \in HarnessImgs}

HarnessUrl == ItemLink(1)

NoOutput == [result |-> "none"]

PageIdle ==
    /\ fnOp = "none"
    /\ fnIn = [kind |-> "none"]
    /\ fnOut = NoOutput

PageInit ==
    /\ fnOp = "none"
    /\ fnIn \in ListInputs \cup DetailInputs
    /\ fnOut = NoOutput

\* scrape_list_page on a page that loads at once
ApplyListPage ==
    /\ fnOp = "none"
    /\ fnIn.kind = "list"
    /\ fnOp' = "scrape_list_page"
    /\ fnOut' = scrape_list_page(<<"ok", "ok", "ok">>, fnIn.anchors,
                                 site_cards(fnIn.anchors), fnIn.max_items)
    /\ UNCHANGED fnIn

\* extract_detail on a page that loads at once
ApplyDetail ==
    /\ fnOp = "none"
    /\ fnIn.kind = "detail"
    /\ fnOp' = "extract_detail"
    /\ fnOut' = extract_detail(HarnessUrl, <<"ok", "ok", "ok">>, fnIn.page)
    /\ UNCHANGED fnIn

(***************************************************************************)
(* app/driver.py: build_driver, get_thread_driver, cleanup_all_drivers     *)
(***************************************************************************)

\* the threads that call into app/driver.py
Threads == {"t1", "t2"}

\* largest number of browsers the model lets start
MaxSessions == 3

\* a thread outside app/driver.py that has made no call yet
NoCall ==
    [pc |-> "idle", op |-> "none", drv |-> 0, tries |-> <<>>, got |-> 0,
     outcome |-> "none", registered |-> FALSE, had |-> 0, had_alive |-> FALSE,
     seen |-> {}, pending |-> {}]

\* _drivers_lock is held: a call of cleanup_all_drivers is inside its with block
\* (the with block of build_driver is one step)
lock_held(th) == \E t \in Threads : th[t].pc = "quitting"

\* a thread-local store that is one attribute shared by every thread
thread_slot_Shared(t) == "t1"

\* _thread_local = threading.local(): every thread reads and writes its own
\* driver attribute
thread_slot(t) == t

DriverIdle ==
    /\ thr = [t \in Threads |-> NoCall]
    /\ active_drivers = {}
    /\ live = {}
    /\ nextId = 1
    /\ thread_local = [t \in Threads |-> 0]

DriverInit == DriverIdle

\* a call enters build_driver or get_thread_driver: the locals are fresh
enter_call(c, op) ==
    [c EXCEPT !.op = op, !.drv = 0, !.tries = <<>>, !.got = 0, !.outcome = "none",
              !.registered = FALSE, !.had = 0, !.had_alive = FALSE]

\* one attempt of a creation strategy and how it ended
attempt(strategy, ok) == [strategy |-> strategy, ok |-> ok]

\* a call of build_driver begins
CallBuildDriver(t) ==
    /\ thr[t].pc = "idle"
    /\ thr' = [thr EXCEPT ![t] = [enter_call(@, "build_driver") EXCEPT !.pc = "primary"]]
    /\ UNCHANGED <<active_drivers, live, nextId, thread_local>>

\* what the primary strategy can do: start Chrome and mask it ("ok"), fail to
\* start Chrome ("no_chrome"), or start Chrome and fail in execute_cdp_cmd
\* ("cdp_failed"); a browser only starts while the model has one left
PrimaryOutcomes(n) ==
    IF n <= MaxSessions THEN {"ok", "no_chrome", "cdp_failed"} ELSE {"no_chrome"}

\* the try block of build_driver up to the registration: webdriver.Chrome and
\* execute_cdp_cmd; any exception leads to the fallback
Primary(t) ==
    /\ thr[t].pc = "primary"
    /\ \E out \in PrimaryOutcomes(nextId) :
         /\ thr' = [thr EXCEPT ![t] =
                      [@ EXCEPT !.tries = Append(@, attempt("primary", out = "ok")),
                                !.drv = IF out = "ok" THEN nextId ELSE 0,
                                !.pc = IF out = "ok" THEN "register" ELSE "fallback"]]
         /\ live' = IF out = "no_chrome" THEN live ELSE live \cup {nextId}
         /\ nextId' = IF out = "no_chrome" THEN nextId ELSE nextId + 1
    /\ UNCHANGED <<active_drivers, thread_local>>

\* what the fallback strategy can do
FallbackOutcomes(n) == IF n <= MaxSessions THEN {"ok", "failed"} ELSE {"failed"}

\* the except clause of build_driver: undetected_chromedriver, and RuntimeError
\* when that raises
Fallback(t) ==
    /\ thr[t].pc = "fallback"
    /\ \E out \in FallbackOutcomes(nextId) :
         /\ thr' = [thr EXCEPT ![t] =
                      [@ EXCEPT !.tries = Append(@, attempt("fallback", out = "ok")),
                                !.drv = IF out = "ok" THEN nextId ELSE 0,
                                !.outcome = IF out = "ok" THEN @ ELSE "raised",
                                !.pc = IF out = "ok" THEN "register" ELSE "idle"]]
         /\ live' = IF out = "ok" THEN live \cup {nextId} ELSE live
         /\ nextId' = IF out = "ok" THEN nextId + 1 ELSE nextId
    /\ UNCHANGED <<active_drivers, thread_local>>

\* a build_driver that returns the browser without adding it
register_Skip(reg, id) == reg

\* with _drivers_lock: _active_drivers.add(driver)
register(reg, id) == reg \cup {id}

Register(t) ==
    /\ thr[t].pc = "register"
    /\ ~lock_held(thr)
    /\ active_drivers' = register(active_drivers, thr[t].drv)
    /\ thr' = [thr EXCEPT ![t] = [@ EXCEPT !.pc = "return"]]
    /\ UNCHANGED <<live, nextId, thread_local>>

\* return driver; in get_thread_driver, _thread_local.driver = driver first
Return(t) ==
    /\ thr[t].pc = "return"
    /\ thr' = [thr EXCEPT ![t] =
                 [@ EXCEPT !.got = thr[t].drv, !.outcome = "returned",
                           !.registered = thr[t].drv \in active_drivers,
                           !.seen = @ \cup {thr[t].drv}, !.pc = "idle"]]
    /\ thread_local' = IF thr[t].op = "get_thread_driver"
                       THEN [thread_local EXCEPT ![thread_slot(t)] = thr[t].drv]
                       ELSE thread_local
    /\ UNCHANGED <<active_drivers, live, nextId>>

\* get_thread_driver up to build_driver: the driver of this thread is returned
\* when driver.current_url answers
CallThreadDriver(t) ==
    /\ thr[t].pc = "idle"
    /\ LET d == thread_local[thread_slot(t)]
           c == [enter_call(thr[t], "get_thread_driver") EXCEPT
                    !.had = d, !.had_alive = d \in live]
       IN  thr' = [thr EXCEPT ![t] =
                     IF d # 0 /\ d \in live
                     THEN [c EXCEPT !.got = d, !.outcome = "returned",
                                    !.registered = d \in active_drivers,
                                    !.seen = @ \cup {d}]
                     ELSE [c EXCEPT !.pc = "primary"]]
    /\ UNCHANGED <<active_drivers, live, nextId, thread_local>>

\* cleanup_all_drivers takes _drivers_lock and copies the set: list(_active_drivers)
CleanupBegin(t) ==
    /\ thr[t].pc = "idle"
    /\ ~lock_held(thr)
    /\ thr' = [thr EXCEPT ![t] =
                 [enter_call(@, "cleanup_all_drivers") EXCEPT
                    !.pc = "quitting", !.pending = active_drivers]]
    /\ UNCHANGED <<active_drivers, live, nextId, thread_local>>

\* what driver.quit() can do: end the browser, or raise and leave it as it is
QuitOutcomes == {"quit", "raised"}

\* the browsers that run after driver.quit() on d
after_quit(running, d, out) == IF out = "quit" THEN running \ {d} ELSE running

\* one turn of the for loop: driver.quit() inside try, except Exception: pass;
\* the set is iterated in no particular order
CleanupQuit(t) ==
    /\ thr[t].pc = "quitting"
    /\ \E d \in thr[t].pending, out \in QuitOutcomes :
         /\ live' = after_quit(live, d, out)
         /\ thr' = [thr EXCEPT ![t] = [@ EXCEPT !.pending = @ \ {d}]]
    /\ UNCHANGED <<active_drivers, nextId, thread_local>>

\* after the loop: _active_drivers.clear(), the lock is released, None returned
CleanupClear(t) ==
    /\ thr[t].pc = "quitting"
    /\ thr[t].pending = {}
    /\ active_drivers' = {}
    /\ thr' = [thr EXCEPT ![t] = [@ EXCEPT !.pc = "idle", !.outcome = "returned"]]
    /\ UNCHANGED <<live, nextId, thread_local>>

(***************************************************************************)
(* app/web.py: start_scraper and run_scraper_task                          *)
(***************************************************************************)

\* the POST /api/start requests of a run
Requests == {"r1", "r2", "r3"}

GuardIdle ==
    /\ scraper_running = FALSE
    /\ req = [r \in Requests |-> "none"]
    /\ task = [r \in Requests |-> "none"]

GuardInit == GuardIdle

\* with state_lock: if scraper_state["running"]: return "Already running", 400
start_allowed(is_running) == ~is_running

\* start_scraper up to the release of state_lock
StartCheck(r) ==
    /\ req[r] = "none"
    /\ req' = [req EXCEPT ![r] = IF start_allowed(scraper_running) THEN "checked"
                                 ELSE "rejected"]
    /\ UNCHANGED <<scraper_running, task>>

\* threading.Thread(target=run_scraper_task, ...).start() and the "Started" answer
StartSpawn(r) ==
    /\ req[r] = "checked"
    /\ req' = [req EXCEPT ![r] = "started"]
    /\ task' = [task EXCEPT ![r] = "spawned"]
    /\ UNCHANGED scraper_running

\* run_scraper_task: under state_lock, running becomes True
TaskMark(r) ==
    /\ task[r] = "spawned"
    /\ task' = [task EXCEPT ![r] = "running"]
    /\ scraper_running' = TRUE
    /\ UNCHANGED req

\* run_scraper_task ends (no listings, complete, or error): running becomes False
TaskFinish(r) ==
    /\ task[r] = "running"
    /\ task' = [task EXCEPT ![r] = "finished"]
    /\ scraper_running' = FALSE
    /\ UNCHANGED req

InitCrawl == CrawlInit /\ NavIdle /\ MergeIdle /\ CookieIdle /\ ContactIdle /\ PageIdle
    /\ DriverIdle /\ GuardIdle

NextCrawl ==
    \/ StartScrape /\ UNCHANGED <<navVars, mergeVars, cookieVars, contactVars, pageVars,
                   driverVars, guardVars>>
    \/ BeginLocation /\ UNCHANGED <<navVars, mergeVars, cookieVars, contactVars, pageVars,
                   driverVars, guardVars>>
    \/ ListPage /\ UNCHANGED <<navVars, mergeVars, cookieVars, contactVars, pageVars,
                   driverVars, guardVars>>
    \/ DetailItem /\ UNCHANGED <<navVars, mergeVars, cookieVars, contactVars, pageVars,
                   driverVars, guardVars>>

InitMerge == MergeInit /\ NavIdle /\ CrawlIdle /\ CookieIdle /\ ContactIdle /\ PageIdle
    /\ DriverIdle /\ GuardIdle

NextMerge == MergeRecords /\ UNCHANGED <<navVars, crawlVars, cookieVars, contactVars, pageVars,
                   driverVars, guardVars>>

SpecMerge == InitMerge /\ [][NextMerge]_vars

InitCookie == CookieInit /\ NavIdle /\ CrawlIdle /\ MergeIdle /\ ContactIdle /\ PageIdle
    /\ DriverIdle /\ GuardIdle

NextCookie ==
    \/ LoadCookies /\ UNCHANGED <<navVars, crawlVars, mergeVars, contactVars, pageVars,
                   driverVars, guardVars>>
    \/ SaveCookies /\ UNCHANGED <<navVars, crawlVars, mergeVars, contactVars, pageVars,
                   driverVars, guardVars>>
    \/ DeleteCookies /\ UNCHANGED <<navVars, crawlVars, mergeVars, contactVars, pageVars,
                   driverVars, guardVars>>
    \/ Tick /\ UNCHANGED <<navVars, crawlVars, mergeVars, contactVars, pageVars,
                   driverVars, guardVars>>

SpecCookie == InitCookie /\ [][NextCookie]_vars

InitContact == ContactInit /\ NavIdle /\ CrawlIdle /\ MergeIdle /\ PageIdle
    /\ DriverIdle /\ GuardIdle

NextContact ==
    \/ BeginEnrich /\ UNCHANGED <<navVars, crawlVars, mergeVars, pageVars,
                   driverVars, guardVars>>
    \/ LoadSaved /\ UNCHANGED <<navVars, crawlVars, mergeVars, pageVars,
                   driverVars, guardVars>>
    \/ ProbeSaved /\ UNCHANGED <<navVars, crawlVars, mergeVars, pageVars,
                   driverVars, guardVars>>
    \/ OpenBrowser /\ UNCHANGED <<navVars, crawlVars, mergeVars, pageVars,
                   driverVars, guardVars>>
    \/ LoginPoll /\ UNCHANGED <<navVars, crawlVars, mergeVars, pageVars,
                   driverVars, guardVars>>
    \/ LoginEnds /\ UNCHANGED <<navVars, crawlVars, mergeVars, pageVars,
                   driverVars, guardVars>>
    \/ ContactAttempt /\ UNCHANGED <<navVars, crawlVars, mergeVars, pageVars,
                   driverVars, guardVars>>

SpecContact == InitContact /\ [][NextContact]_vars

\* fetch_contacts runs on: each call it makes returns
SpecContactFair == SpecContact /\ WF_vars(NextContact)

SpecCrawl == InitCrawl /\ [][NextCrawl]_vars

InitPage == PageInit /\ NavIdle /\ CrawlIdle /\ MergeIdle /\ CookieIdle /\ ContactIdle
    /\ DriverIdle /\ GuardIdle

NextPage ==
    \/ ApplyListPage /\ UNCHANGED <<navVars, crawlVars, mergeVars, cookieVars, contactVars,
                   driverVars, guardVars>>
    \/ ApplyDetail /\ UNCHANGED <<navVars, crawlVars, mergeVars, cookieVars, contactVars,
                   driverVars, guardVars>>

SpecPage == InitPage /\ [][NextPage]_vars

InitDriver ==
    /\ DriverInit /\ GuardIdle
    /\ NavIdle /\ CrawlIdle /\ MergeIdle /\ CookieIdle /\ ContactIdle /\ PageIdle

OthersOfDriver == <<navVars, crawlVars, mergeVars, cookieVars, contactVars, pageVars, guardVars>>

\* build_driver called from several threads
NextCreate ==
    \E t \in Threads :
        \/ CallBuildDriver(t) /\ UNCHANGED OthersOfDriver
        \/ Primary(t) /\ UNCHANGED OthersOfDriver
        \/ Fallback(t) /\ UNCHANGED OthersOfDriver
        \/ Register(t) /\ UNCHANGED OthersOfDriver
        \/ Return(t) /\ UNCHANGED OthersOfDriver

SpecCreate == InitDriver /\ [][NextCreate]_vars

\* every function of app/driver.py called from several threads
\* threads that call build_driver and cleanup_all_drivers
NextRegistry ==
    \E t \in Threads :
        \/ CallBuildDriver(t) /\ UNCHANGED OthersOfDriver
        \/ Primary(t) /\ UNCHANGED OthersOfDriver
        \/ Fallback(t) /\ UNCHANGED OthersOfDriver
        \/ Register(t) /\ UNCHANGED OthersOfDriver
        \/ Return(t) /\ UNCHANGED OthersOfDriver
        \/ CleanupBegin(t) /\ UNCHANGED OthersOfDriver
        \/ CleanupQuit(t) /\ UNCHANGED OthersOfDriver
        \/ CleanupClear(t) /\ UNCHANGED OthersOfDriver

SpecRegistry == InitDriver /\ [][NextRegistry]_vars

\* threads that call get_thread_driver and cleanup_all_drivers
NextDriver ==
    \E t \in Threads :
        \/ CallThreadDriver(t) /\ UNCHANGED OthersOfDriver
        \/ Primary(t) /\ UNCHANGED OthersOfDriver
        \/ Fallback(t) /\ UNCHANGED OthersOfDriver
        \/ Register(t) /\ UNCHANGED OthersOfDriver
        \/ Return(t) /\ UNCHANGED OthersOfDriver
        \/ CleanupBegin(t) /\ UNCHANGED OthersOfDriver
        \/ CleanupQuit(t) /\ UNCHANGED OthersOfDriver
        \/ CleanupClear(t) /\ UNCHANGED OthersOfDriver

SpecDriver == InitDriver /\ [][NextDriver]_vars

InitGuard ==
    /\ GuardInit /\ DriverIdle
    /\ NavIdle /\ CrawlIdle /\ MergeIdle /\ CookieIdle /\ ContactIdle /\ PageIdle

OthersOfGuard == <<navVars, crawlVars, mergeVars, cookieVars, contactVars, pageVars, driverVars>>

NextGuard ==
    \E r \in Requests :
        \/ StartCheck(r) /\ UNCHANGED OthersOfGuard
        \/ StartSpawn(r) /\ UNCHANGED OthersOfGuard
        \/ TaskMark(r) /\ UNCHANGED OthersOfGuard
        \/ TaskFinish(r) /\ UNCHANGED OthersOfGuard

SpecGuard == InitGuard /\ [][NextGuard]_vars

(***************************************************************************)
(* Crawl claims                                                            *)
(***************************************************************************)

\* number of listings the page log of a location shows for its first i pages
RECURSIVE yielded(_, _)
yielded(log, i) == IF i = 0 THEN 0 ELSE log[i].count + yielded(log, i - 1)

\* number of records of rs tagged with location key k
RECURSIVE count_for(_, _)
count_for(rs, k) ==
    IF rs = <<>> THEN 0
    ELSE (IF Head(rs)["Location_Key"] = k THEN 1 ELSE 0) + count_for(Tail(rs), k)

\* number of records of rs whose link is h
link_count(rs, h) == Cardinality({i \in DOMAIN rs : rs[i]["Link"] = h})

\* C2: within one location the list pages are requested in increasing order
\* from page 1, at most max_pages of them (DEFAULT_MAX_PAGES when none is
\* given), and no page is requested after a page that gave no items or after
\* the listings collected reached LISTINGS_PER_LOCATION.
C2_PageOrder ==
    \A k \in LocationKeys :
        LET log == pageLog[k] IN
        /\ \A i \in DOMAIN log : log[i].page = i
        /\ Len(log) <= (IF argMaxPages = 0 THEN 3 ELSE argMaxPages)
        /\ \A i \in DOMAIN log :
              i < Len(log) => (log[i].count > 0 /\ yielded(log, i) < 30)

C2_Witness ==
    \E k \in LocationKeys :
        /\ Len(pageLog[k]) = 2
        /\ argMaxPages = 0
        /\ yielded(pageLog[k], 2) >= 30
        /\ pc # "list"

\* C3 (as stated): for every max_listings the caller supplies, scrape_listings
\* returns at most that many records for each location.
C3_AtMostSupplied ==
    \A k \in LocationKeys : count_for(all_results, k) <= argMaxListings

\* keys of the locations scenario A is about: those of the two-location
\* configuration
ScenarioKeys == {TwoLocations[i].key : i \in DOMAIN TwoLocations}

\* scenario A: two locations configured, no selection, max_listings = 3, every
\* browser starts, and each location has one result page, of 2 listings (the
\* page loop stops after it because max_pages is 1 or because page 2 is empty)
ScenarioA ==
    /\ pc = "done"
    /\ \A i \in DOMAIN creates : creates[i] = "ok"
    /\ config_locations = TwoLocations
    /\ ~argSelected.given
    /\ argMaxListings = 3
    /\ \A k \in ScenarioKeys :
          LET log == pageLog[k] IN
          /\ Len(log) \in {1, 2}
          /\ log[1].count = 2
          /\ Len(log) = 2 => (log[2].count = 0 /\ log[2].result = "ok")

\* the i-th record of rs carries the key and the name of location number n
tagged_with(rs, i, n) ==
    /\ rs[i]["Location_Key"] = LOCATIONS[n].key
    /\ rs[i]["Scraped_Location"] = LOCATIONS[n].name

\* C4 (as stated): in scenario A scrape_listings returns exactly 3 records per
\* location (6 in total), each tagged with its location key.
C4_Original ==
    ScenarioA =>
        /\ \A k \in ScenarioKeys : count_for(all_results, k) = 3
        /\ Len(all_results) = 6

\* C4 (amended): in scenario A scrape_listings returns exactly 2 records per
\* location (4 in total), the first location's records first, each tagged with
\* the key and the name of its location.
C4_ScenarioA ==
    ScenarioA =>
        /\ \A k \in ScenarioKeys : count_for(all_results, k) = 2
        /\ Len(all_results) = 4
        /\ tagged_with(all_results, 1, 1) /\ tagged_with(all_results, 2, 1)
        /\ tagged_with(all_results, 3, 2) /\ tagged_with(all_results, 4, 2)

C4_Witness == ScenarioA /\ Len(all_results) = 4

\* C6: an exception of extract_detail never ends the location: a location is
\* only given up when a list page raised, and when scrape_single_location has
\* returned, the merged records hold every link of all_basics exactly as often
\* as all_basics does.
C6_DetailIsolation ==
    /\ \A k \in LocationKeys :
          locOutcome[k] = "raised" =>
              (pageLog[k] # <<>> /\ pageLog[k][Len(pageLog[k])].result = "raise")
    /\ (curLoc # "" /\ pc \in {"location", "done"} /\ locOutcome[curLoc] = "returned") =>
          /\ Len(location_results) = Len(all_basics)
          /\ \A i \in DOMAIN all_basics :
                link_count(location_results, all_basics[i]["Link"])
                    = link_count(all_basics, all_basics[i]["Link"])

C6_Witness ==
    /\ curLoc # ""
    /\ pc \in {"location", "done"}
    /\ locOutcome[curLoc] = "returned"
    /\ Len(location_results) >= 2
    /\ \E i \in DOMAIN location_results : "error" \in DOMAIN location_results[i]

(***************************************************************************)
(* Navigation retry claims                                                 *)
(***************************************************************************)

NavInit ==
    /\ navOp = "none"
    /\ navOuts \in [1..DefaultMaxRetries -> NavOutcome]
    /\ navRes = NoNav

NavListPage ==
    /\ navOp = "none"
    /\ navOuts # <<>>
    /\ navOp' = "scrape_list_page"
    /\ navRes' = list_navigate(navOuts, 0, DefaultMaxRetries)
    /\ UNCHANGED navOuts

NavDetail ==
    /\ navOp = "none"
    /\ navOuts # <<>>
    /\ navOp' = "extract_detail"
    /\ navRes' = detail_navigate(navOuts, 0, DefaultMaxRetries)
    /\ UNCHANGED navOuts

InitNav == NavInit /\ CrawlIdle /\ MergeIdle /\ CookieIdle /\ ContactIdle /\ PageIdle
    /\ DriverIdle /\ GuardIdle

NextNav ==
    \/ NavListPage /\ UNCHANGED <<crawlVars, mergeVars, cookieVars, contactVars, pageVars,
                   driverVars, guardVars>>
    \/ NavDetail /\ UNCHANGED <<crawlVars, mergeVars, cookieVars, contactVars, pageVars,
                   driverVars, guardVars>>

SpecNav == InitNav /\ [][NextNav]_vars

AllTransient == navOuts # <<>> /\ \A i \in DOMAIN navOuts : IsTransient(navOuts[i])

\* C1: in both scrape_list_page and extract_detail, when every
\* navigation attempt fails with a transient network error, exactly 3 attempts
\* are made and the error then propagates to the caller as a failure (it is
\* not turned into an empty or partial result).
C1_Original ==
    (navOp # "none" /\ AllTransient)
        => (navRes.attempts = 3 /\ navRes.result = "raise")

\* seconds the function that navigated sleeps after a transient error
retry_pause == IF navOp = "scrape_list_page" THEN ListRetryPause ELSE DetailRetryPause

\* C22: in scrape_list_page and in extract_detail a driver.get that fails with
\* a non-transient error is the last attempt for the page: the error is raised
\* at once, no pause follows it and no further attempt is made; when it is the
\* first driver.get of the page that fails so, exactly one attempt is made and
\* no pause occurs at all.
C22_NonTransientImmediate ==
    navOp # "none" =>
        /\ navOuts[1] = "other" =>
              navRes = [result |-> "raise", attempts |-> 1, slept |-> 0]
        /\ \A i \in 1..navRes.attempts :
              navOuts[i] = "other" =>
                  /\ i = navRes.attempts
                  /\ navRes.result = "raise"
                  /\ navRes.slept = (i - 1) * retry_pause

\* scrape_list_page met a non-transient error on the first driver.get of a page
\* that later attempts would have loaded
C22_Witness ==
    /\ navOp = "scrape_list_page"
    /\ navOuts = <<"other", "ok", "ok">>
    /\ navRes = [result |-> "raise", attempts |-> 1, slept |-> 0]

(***************************************************************************)
(* Merge claim                                                             *)
(***************************************************************************)

\* C5: for every key of the basic record, the merged value is the detail's
\* value when the detail has a non-empty one, else the basic value when that is
\* non-empty, else the empty string; it is never None.
C5_MergePrecedence ==
    mOut.done =>
        \A k \in DOMAIN mB :
            /\ k \in DOMAIN mOut.rec
            /\ mOut.rec[k] # NoneVal
            /\ mOut.rec[k] =
                 (IF k \in DOMAIN mD /\ mD[k] # "" /\ mD[k] # NoneVal THEN mD[k]
                  ELSE IF mB[k] # "" /\ mB[k] # NoneVal THEN mB[k]
                  ELSE "")

C5_Witness ==
    /\ mOut.done
    /\ "Title" \in DOMAIN mD /\ mD["Title"] = "detail" /\ mB["Title"] = "basic"
    /\ "Price" \in DOMAIN mD /\ mD["Price"] = "" /\ mB["Price"] = "basic"
    /\ "Location" \notin DOMAIN mD /\ mB["Location"] = NoneVal
    /\ mOut.rec["Title"] = "detail"
    /\ mOut.rec["Price"] = "basic"
    /\ mOut.rec["Location"] = ""

(***************************************************************************)
(* Cookie store claims                                                     *)
(***************************************************************************)

\* the last load_cookies call found a record with a timestamp and cookies
LoadedStamped ==
    /\ lastLoad.called
    /\ lastLoad.file.kind = "json"
    /\ lastLoad.file.stamp = "ok"
    /\ lastLoad.file.cookies # <<>>

\* C7: a record saved 7 days and 1 second before the load is expired (load
\* returns None and the file is gone); a record with cookies saved 7 days less
\* 1 second before the load is valid (load returns its cookies and leaves it).
C7_TtlBoundary ==
    LoadedStamped =>
        /\ lastLoad.now - lastLoad.file.saved_at = 7 * 86400 + 1 =>
              (~lastLoad.result.some /\ lastLoad.after.kind = "absent")
        /\ lastLoad.now - lastLoad.file.saved_at = 7 * 86400 - 1 =>
              /\ lastLoad.result.some
              /\ lastLoad.result.cookies = lastLoad.file.cookies
              /\ lastLoad.after = lastLoad.file

C7_Witness ==
    /\ LoadedStamped
    /\ lastLoad.now - lastLoad.file.saved_at = 7 * 86400 + 1
    /\ ~lastLoad.result.some
    /\ lastLoad.after.kind = "absent"

\* the last load_cookies call found a file that is no JSON object or whose
\* timestamp does not parse
LoadedCorrupt ==
    /\ lastLoad.called
    /\ \/ lastLoad.file.kind \in {"garbage", "notdict"}
       \/ lastLoad.file.kind = "json" /\ lastLoad.file.stamp = "malformed"

\* C8 (as stated): load on a corrupt file returns None and the file no longer
\* exists afterwards.
C8_Original ==
    LoadedCorrupt => (~lastLoad.result.some /\ lastLoad.after.kind = "absent")

\* C8 (amended): load on a corrupt file (no JSON, no JSON object, or a
\* timestamp that does not parse) returns None and leaves the file as it was.
C8_CorruptIsAbsence ==
    LoadedCorrupt => (~lastLoad.result.some /\ lastLoad.after = lastLoad.file)

C8_Witness ==
    /\ LoadedCorrupt
    /\ lastLoad.file.stamp = "malformed"
    /\ ~lastLoad.result.some
    /\ lastLoad.after = lastLoad.file

(***************************************************************************)
(* Contact enrichment claims                                                *)
(***************************************************************************)

\* C9: every key a listing holds before enrichment keeps its prior value after
\* it, whatever the contact payloads were, and no key of the exclusion list is
\* added to a listing.
C9_NeverOverwrites ==
    /\ DOMAIN listings = DOMAIN listings0
    /\ \A i \in DOMAIN listings0 :
         /\ \A k \in DOMAIN listings0[i] :
              k \in DOMAIN listings[i] /\ listings[i][k] = listings0[i][k]
         /\ \A k \in (DOMAIN listings[i]) \ (DOMAIN listings0[i]) :
              k \notin EXCLUDED_COLUMNS

\* a listing with Title "X" has received the payload (which holds Title "Y" and
\* the excluded key roles) and enrichment is over
C9_Witness ==
    /\ cpc = "done"
    /\ \E i \in DOMAIN listings :
         /\ listings0[i] = ListingWithId
         /\ "name" \in DOMAIN listings[i]
         /\ listings[i]["name"] = ContactPayload["name"]
         /\ listings[i]["Title"] = "X"
         /\ "roles" \notin DOMAIN listings[i]

\* the retry loop of an ad has ended and its tally is made
AdTallied == cpc \in {"fetch", "done"} /\ attemptIdx = 0 /\ calls # <<>>

\* position in ad_ids of the ad tallied last
lastTallied == IF cpc = "done" THEN Len(ad_ids) ELSE adPos - 1

count_result(v) == Cardinality({i \in DOMAIN adResult : adResult[i] = v})

\* the ad ids enrichment resolves from the listings passed in
distinct_ad_ids == {load_ad_id(listings0[i]) : i \in DOMAIN listings0} \ {"", NoneVal}

\* C10 (as stated): an ad counts as a success exactly when one of its attempts
\* returned 200 or 304, otherwise as a failure.
C10_Original ==
    AdTallied =>
        (adResult[lastTallied] = "success"
            <=> \E i \in DOMAIN calls : calls[i].status \in {"200", "304"})

\* an attempt whose answer ends the retry loop: a 304, or a 200 whose body
\* decodes to a JSON value other than null
accepted(resp) ==
    resp.status = "304" \/ (resp.status = "200" /\ resp.body \in {"object", "list"})

\* C10 (amended): an ad counts as a success exactly when one of its attempts
\* returned 304 or a 200 whose body decodes to a non-null JSON value, otherwise
\* as exactly one failure; a 401 on the first attempt with a browser session
\* followed by a 200 with a JSON object on the second is a success whose payload
\* is merged into the listing the ad id is joined to; every ad is tallied once,
\* so when enrichment ends successes + failures is the number of distinct ad ids.
C10_SuccessTally ==
    /\ successes = count_result("success")
    /\ failures = count_result("failure")
    /\ AdTallied =>
         /\ adResult[lastTallied] \in {"success", "failure"}
         /\ adResult[lastTallied] = "success" <=> \E i \in DOMAIN calls : accepted(calls[i])
         /\ \A i \in DOMAIN adResult : adResult[i] = "pending" <=> i > lastTallied
         /\ (/\ sess = "browser"
             /\ calls = <<[status |-> "401", body |-> "none"],
                          [status |-> "200", body |-> "object"]>>)
            => /\ adResult[lastTallied] = "success"
               /\ LET at == id_to_listing(listings0, ad_ids[lastTallied])
                  IN  at # 0 => "mobile" \in DOMAIN listings[at]
    /\ cpc = "done" =>
         /\ successes + failures = Len(ad_ids)
         /\ Len(ad_ids) = Cardinality(distinct_ad_ids)

\* the second of two ads was answered 401 and then 200 with a browser session
\* open, after the first ad failed three times: one success, one failure
C10_Witness ==
    /\ cpc = "done"
    /\ sess = "browser"
    /\ Len(ad_ids) = 2
    /\ calls = <<[status |-> "401", body |-> "none"], [status |-> "200", body |-> "object"]>>
    /\ adResult = <<"failure", "success">>
    /\ successes = 1
    /\ failures = 1
    /\ "mobile" \in DOMAIN listings[id_to_listing(listings0, ad_ids[2])]

\* C11 (as stated): an ad gets at most 3 contact calls, and none after a call
\* that returned 200 or 304.
C11_Original ==
    /\ Len(calls) <= 3
    /\ \A i \in DOMAIN calls :
         calls[i].status \in {"200", "304"} => i = Len(calls)

\* C11 (amended): an ad gets at most 3 contact calls whatever the answers are,
\* and none after a call that returned 304 or a 200 whose body decodes to a JSON
\* value other than null; a 200 with a null or undecodable body is retried.
C11_CallBudget ==
    /\ Len(calls) <= ContactAttempts
    /\ \A i \in DOMAIN calls : accepted(calls[i]) => i = Len(calls)
    /\ (AdTallied /\ Len(calls) < ContactAttempts) => accepted(calls[Len(calls)])

\* three calls were made for one ad, answered 401, 429 and a transport error,
\* and the ad is tallied a failure
C11_Witness ==
    /\ AdTallied
    /\ calls = <<[status |-> "401", body |-> "none"], [status |-> "429", body |-> "none"],
                 [status |-> "error", body |-> "none"]>>
    /\ adResult[lastTallied] = "failure"

\* a step of the retry loop: one contact call is made and answered
ContactCall ==
    /\ cpc = "fetch"
    /\ <<attemptIdx, adPos, cpc>>' # <<attemptIdx, adPos, cpc>>

\* the status of the answer to the call made in this step
answered(st) == ContactCall /\ calls'[Len(calls')].status = st

\* C12: a 304 answer is a successful no-op: the ad is counted a success and no
\* listing is changed by it (no key added, removed or changed).
C12_NotModifiedNoOp ==
    [][answered("304") => (successes' = successes + 1 /\ listings' = listings)]_vars

\* C13: the cookie file is deleted only by a load that finds it older than the
\* TTL, or by a 401/403 answer of the contact API while no browser is open; a
\* 429 answer never deletes it, and no answer deletes it while a browser is open.
C13_DeletionCauses ==
    [][/\ (cookieFile.kind # "absent" /\ cookieFile'.kind = "absent") =>
            \/ /\ cpc = "acquire"
               /\ cookieFile.kind = "json"
               /\ cookieFile.stamp = "ok"
               /\ cookie_expired(now, cookieFile.saved_at)
            \/ /\ ~driver
               /\ (answered("401") \/ answered("403"))
       /\ answered("429") => cookieFile' = cookieFile
       /\ (ContactCall /\ driver) => cookieFile' = cookieFile]_vars

\* the session acquisition has run
Acquired == lastLoad.called /\ cpc \in {"fetch", "done", "failed"}

\* the cookie file the acquisition loaded held a valid session: a record saved
\* within the TTL with an authentication cookie
stored_valid ==
    /\ lastLoad.file.kind = "json"
    /\ lastLoad.file.stamp = "ok"
    /\ lastLoad.now - lastLoad.file.saved_at <= MaxAge
    /\ has_auth_in_cookies_list(lastLoad.file.cookies)

probe_ok == acq.probe \in {"200", "304"}

C14_Safety ==
    Acquired =>
        /\ (stored_valid /\ probe_ok) =>
              (~acq.opened /\ ~driver /\ sess = "saved" /\ cpc # "failed")
        /\ ~(stored_valid /\ probe_ok) =>
              /\ acq.opened
              /\ calls # <<>> => (acq.login = "detected" /\ sess = "browser")
              /\ stored_valid <=> acq.probe # "none"

\* C14: with a valid stored session and a successful probe, enrichment runs to
\* its end without a browser ever being opened; in every other case (no stored
\* session, an invalid one, a rejected probe, a probe that fails in transport)
\* a browser is opened and the login awaited before the first contact call.
C14_AcquisitionPriority ==
    /\ []C14_Safety
    /\ (Acquired /\ stored_valid /\ probe_ok) ~> (cpc = "done" /\ ~acq.opened)

\* enrichment ended on the stored session, after a successful probe, with a
\* contact fetched and no browser
C14_Witness ==
    /\ cpc = "done"
    /\ stored_valid
    /\ acq = [probe |-> "200", opened |-> FALSE, login |-> "none"]
    /\ successes = 1

C16_CreateFailureFatal ==
    \A i \in DOMAIN creates : creates[i] = "failed" => i = Len(creates)

\* position of location key k in the iteration order of locations_to_scrape
loc_pos(k) ==
    LET locs == locations_to_scrape(argSelected)
    IN  IF \E i \in DOMAIN locs : locs[i] = k
        THEN CHOOSE i \in DOMAIN locs : locs[i] = k
        ELSE 0

\* work has been done for location k: a browser was asked for or a page loaded
loc_begun(k) == k = curLoc \/ pageLog[k] # <<>> \/ locOutcome[k] # "none"

\* C17: locations are processed one at a time, in iteration order: while a
\* location is worked on, every location begun before it is finished and none
\* after it is begun; all_results is the concatenation of the record groups of
\* the locations in that order; every record carries the key and the display
\* name of the location that was being scraped when it was made.
C17_OneAtATime ==
    /\ \A k \in LocationKeys :
         loc_begun(k) =>
            /\ loc_pos(k) # 0
            /\ curLoc # "" /\ loc_pos(k) <= loc_pos(curLoc)
            /\ k # curLoc => locOutcome[k] # "none"
    /\ \A i \in DOMAIN location_results :
         /\ location_results[i]["Location_Key"] = curLoc
         /\ location_results[i]["Scraped_Location"] = LocationName(curLoc)
    /\ \A i \in DOMAIN all_results :
         /\ all_results[i]["Location_Key"] \in LocationKeys
         /\ locOutcome[all_results[i]["Location_Key"]] = "returned"
         /\ all_results[i]["Scraped_Location"] = LocationName(all_results[i]["Location_Key"])
         /\ i > 1 => loc_pos(all_results[i - 1]["Location_Key"])
                         <= loc_pos(all_results[i]["Location_Key"])
    /\ (curLoc # "" /\ locOutcome[curLoc] = "returned") =>
         /\ Len(all_results) >= Len(location_results)
         /\ SubSeq(all_results, Len(all_results) - Len(location_results) + 1,
                   Len(all_results)) = location_results

\* both locations gave records: the run returned johar_town's group and then
\* model_town's
C17_Witness ==
    /\ pc = "done"
    /\ Len(all_results) = 4
    /\ tagged_with(all_results, 1, 1) /\ tagged_with(all_results, 2, 1)
    /\ tagged_with(all_results, 3, 2) /\ tagged_with(all_results, 4, 2)
    /\ location_results = SubSeq(all_results, 3, 4)

\* C25: scrape_listings never crawls a location whose "enabled" flag is False,
\* whether selected_locations is None or names the location by key, and keys of
\* selected_locations that are not configured are passed over without error.
C25_NeverCrawlsDisabled ==
    /\ \A i \in DOMAIN config_locations :
         ~config_locations[i].enabled => ~loc_begun(config_locations[i].key)
    /\ (argSelected.given /\ \A i \in DOMAIN argSelected.keys :
                                 argSelected.keys[i] \notin ConfigKeys)
          => (pc \in {"start", "done"} /\ all_results = <<>> /\ creates = <<>>)

\* C23: during the detail phase of a location at most DETAIL_WORKERS calls of
\* extract_detail are under way at any instant (the code runs them one after
\* another, so at most one is), each on a browser that build_driver returned
\* for the detail phase of that location and that is still open, and no browser
\* serves two calls at once.
C23_BoundedWorkers ==
    /\ Cardinality(in_flight) <= DETAIL_WORKERS
    /\ pc = "detail" => Cardinality(in_flight) = 1
    /\ \A e \in in_flight :
         /\ e.item \in DOMAIN all_basics
         /\ creates[e.session] = "ok"
         /\ [id |-> e.session, role |-> "detail", key |-> curLoc] \in openSessions
    /\ \A a, b \in in_flight : a.session = b.session => a = b

\* the tenth of thirty listings is being extracted: twenty more wait, which is
\* more than the configured worker count
C23_Witness ==
    /\ pc = "detail"
    /\ Len(all_basics) = 30
    /\ Len(all_basics) - Len(location_results) > DETAIL_WORKERS
    /\ in_flight = {[item |-> 10, session |-> Len(creates)]}

\* C24: the browser of the list phase of a location is quit before the first
\* detail extraction of that location starts (during the detail phase only the
\* detail browser of the location is open), no browser of an earlier location
\* stays open, and when scrape_listings returns every browser started in the
\* run has been quit, also when a list page raised or a detail extraction
\* raised.
C24_SessionsClosed ==
    /\ \A x \in openSessions : x.key = curLoc
    /\ pc = "list" => openSessions = {[id |-> Len(creates), role |-> "list", key |-> curLoc]}
    /\ pc = "detail" =>
         openSessions = {[id |-> Len(creates), role |-> "detail", key |-> curLoc]}
    /\ pc \in {"start", "location", "done"} => openSessions = {}

(***************************************************************************)
(* Page claims                                                             *)
(***************************************************************************)

\* links of the rows scrape_list_page returned
row_links == [i \in DOMAIN fnOut.rows |-> fnOut.rows[i]["Link"]]

\* position of the first anchor with href h
first_seen(h) ==
    CHOOSE i \in DOMAIN fnIn.anchors :
        fnIn.anchors[i] = h /\ \A j \in 1..(i - 1) : fnIn.anchors[j] # h

\* item links among the anchors of the page
item_links == {fnIn.anchors[i] : i \in DOMAIN fnIn.anchors} \ OtherHrefs

\* C18 (as stated): scrape_list_page returns at most max_items records for
\* every max_items >= 0.
C18_Original ==
    fnOp = "scrape_list_page" => Len(fnOut.rows) <= fnIn.max_items

\* C18 (amended): scrape_list_page returns each item link at most once, in the
\* order in which the links are first seen among the anchors; it returns the
\* first max_items distinct links when max_items >= 1, and every distinct link
\* when max_items is 0 or not given.
C18_DedupAndCap ==
    fnOp = "scrape_list_page" =>
        /\ \A i, j \in DOMAIN row_links :
              /\ row_links[i] \in item_links
              /\ i # j => row_links[i] # row_links[j]
              /\ i < j => first_seen(row_links[i]) < first_seen(row_links[j])
        /\ \A h \in item_links :
              (\E i \in DOMAIN row_links : row_links[i] = h)
                 \/ \A i \in DOMAIN row_links : first_seen(row_links[i]) < first_seen(h)
        /\ fnIn.max_items >= 1 =>
              Len(row_links) = (IF Cardinality(item_links) < fnIn.max_items
                                THEN Cardinality(item_links) ELSE fnIn.max_items)
        /\ fnIn.max_items = 0 => Len(row_links) = Cardinality(item_links)

\* a page whose anchors show one link twice with another in between, capped at 1
C18_Witness ==
    /\ fnOp = "scrape_list_page"
    /\ fnIn.anchors = <<ItemLink(2), ItemLink(1), ItemLink(2)>>
    /\ fnIn.max_items = 1
    /\ row_links = <<ItemLink(2)>>

\* C20: when the structured data of a detail page gives a price, the price of
\* the record extract_detail returns is that value (normalised like every field:
\* stripped, and empty when it is the placeholder N/A), whatever price the
\* selector chain finds; the selector's price is used only without one.
C20_StructuredPriceWins ==
    (fnOp = "extract_detail" /\ fnIn.page.ready) =>
        LET j == fnIn.page.jsonld IN
        /\ "Price" \in DOMAIN fnOut.detail
        /\ "Price" \in DOMAIN j =>
              fnOut.detail["Price"] = (IF IsNA(j["Price"]) THEN "" ELSE Strip(j["Price"]))
        /\ ("Price" \in DOMAIN j /\ j["Price"] = "PKR 500000") =>
              fnOut.detail["Price"] = "PKR 500000"
        /\ "Price" \notin DOMAIN j =>
              fnOut.detail["Price"] =
                 (IF IsNA(fnIn.page.sel.Price) THEN "" ELSE Strip(fnIn.page.sel.Price))

\* scenario B: structured data gives PKR 500000, the selectors give Rs 1
C20_Witness ==
    /\ fnOp = "extract_detail"
    /\ fnIn.page.ready
    /\ fnIn.page.jsonld = [Title |-> "Honda Civic", Price |-> "PKR 500000"]
    /\ fnIn.page.sel.Price = "Rs 1"
    /\ fnOut.result = "ok"
    /\ fnOut.detail["Price"] = "PKR 500000"

\* the record comes from a detail page whose ready wait timed out: extract_detail
\* returned without the fields of a rendered page and without raising
from_timeout(rec) == "Seller Since" \notin DOMAIN rec /\ "error" \notin DOMAIN rec

\* C19: when the ready wait of a detail page times out, extract_detail returns
\* only the link without raising, so the merged record of that listing holds
\* the link, the title, price and location of the basic record unchanged, the
\* two location tags, and nothing else.
C19_TimeoutKeepsBasics ==
    \A i \in DOMAIN location_results :
        LET rec == location_results[i]
            item == all_basics[i]
        IN  from_timeout(rec) =>
              /\ DOMAIN rec = {"Link", "Title", "Price", "Location",
                               "Scraped_Location", "Location_Key"}
              /\ \A k \in {"Link", "Title", "Price", "Location"} : rec[k] = item[k]

\* the first detail page of a location timed out and the second rendered
C19_Witness ==
    /\ Len(location_results) = 2
    /\ from_timeout(location_results[1])
    /\ location_results[1]["Title"] = SiteCard.Title
    /\ location_results[1]["Price"] = SiteCard.Price
    /\ ~from_timeout(location_results[2])

(***************************************************************************)
(* Contact enrichment claims: the records returned                         *)
(***************************************************************************)

\* the cookie file the acquisition loaded held cookies, none of which is an
\* authentication-token cookie with a non-empty value
stored_tokenless ==
    /\ lastLoad.called
    /\ lastLoad.file.kind = "json"
    /\ lastLoad.file.cookies # <<>>
    /\ \A i \in DOMAIN lastLoad.file.cookies :
         LET c == lastLoad.file.cookies[i]
         IN  c.name \in {"kc_access_token", "kc_refresh_token", "kc_id_token",
                         "hb-session-id"} => c.value = ""

\* C26: stored cookies without an authentication-token cookie of non-empty
\* value are never used for contact calls: no probe request is made for them,
\* a browser is opened for the login (build_driver is called, and unless it
\* raises, which ends the run, the login is awaited), and every contact call
\* that follows is made with the session of the browser after a detected login.
C26_TokenlessNeverUsed ==
    (Acquired /\ stored_tokenless) =>
        /\ acq.probe = "none"
        /\ acq.opened
        /\ \/ acq.login \in {"detected", "timeout"}
           \/ cpc = "failed" /\ ~driver
        /\ sess # "saved"
        /\ calls # <<>> => (sess = "browser" /\ acq.login = "detected")

\* enrichment ended with a contact fetched through the browser although the
\* file held a cookie named like a token, with the empty value
C26_Witness ==
    /\ cpc = "done"
    /\ stored_tokenless
    /\ \E i \in DOMAIN lastLoad.file.cookies :
         lastLoad.file.cookies[i].name = "kc_refresh_token"
    /\ acq = [probe |-> "none", opened |-> TRUE, login |-> "detected"]
    /\ successes >= 1

\* the record d cut down to the keys in ks
restrict(d, ks) == [k \in ks |-> d[k]]

\* C21: fetch_contacts returns the list it was given: as many records, each at
\* its place and still holding every key it held, with the value it held; a
\* listing for which no ad id can be found (no id field, no numeric id in the
\* link) is returned exactly as it was passed in.
C21_SameRecords ==
    /\ Len(listings) = Len(listings0)
    /\ \A i \in DOMAIN listings0 :
         /\ DOMAIN listings0[i] \subseteq DOMAIN listings[i]
         /\ restrict(listings[i], DOMAIN listings0[i]) = listings0[i]
         /\ Falsy(load_ad_id(listings0[i])) => listings[i] = listings0[i]

\* enrichment ended on a list whose first listing has no ad id and whose second
\* received the payload
C21_Witness ==
    /\ cpc = "done"
    /\ listings0 = <<ListingNoId, ListingWithId>>
    /\ listings[1] = ListingNoId
    /\ "mobile" \in DOMAIN listings[2]
    /\ listings[2]["Link"] = ListingWithId["Link"]

\* the ad tallied last was answered 200 with a JSON object
payload_received ==
    AdTallied /\ calls[Len(calls)] = [status |-> "200", body |-> "object"]

\* C27: once the contact call of an ad has returned a 200 payload, every
\* listing whose ad id (the explicit id field "Ad ID", "ad_id" or "id", else the
\* number in the link) is that ad holds every key of the payload that is not
\* excluded: the keys it lacked were added; so for each of several listings
\* with one ad id, and for each of the id fields.
C27_PayloadReachesListing ==
    payload_received =>
        \A i \in DOMAIN listings0 :
            load_ad_id(listings0[i]) = ad_ids[lastTallied] =>
                \A k \in (DOMAIN ContactPayload) \ EXCLUDED_COLUMNS :
                    k \in DOMAIN listings[i]

(***************************************************************************)
(* Progress messages (a progress callback is supplied)                     *)
(***************************************************************************)

\* the extraction of a listing raised or timed out, and no message tells so
silent_listings ==
    {i \in DOMAIN location_results :
        /\ "error" \in DOMAIN location_results[i] \/ from_timeout(location_results[i])
        /\ \A j \in DOMAIN progressLog : progressLog[j] # listing_error(curLoc, i)}

\* scrape_single_location raised for the location, and no message tells so
silent_locations ==
    {k \in LocationKeys :
        /\ locOutcome[k] \in {"raised", "no_session"}
        /\ \A j \in DOMAIN progressLog : progressLog[j] # location_error(k)}

\* the ad was tallied a failure, and no message tells so
silent_ads ==
    {i \in DOMAIN adResult :
        /\ adResult[i] = "failure"
        /\ \A j \in DOMAIN contactLog :
              contactLog[j] # [about |-> "ad", ad_id |-> ad_ids[i]]}

\* C28: with a progress callback, every failure leaves a progress message
\* about it before the run goes on or raises: a listing whose extraction raised
\* or timed out, a location that failed, an ad that failed after its attempts,
\* a login that timed out.
C28_FailureTrail ==
    /\ silent_listings = {}
    /\ silent_locations = {}
    /\ silent_ads = {}
    /\ acq.login = "timeout" => contactLog # <<>>

(***************************************************************************)
(* Page claims: structured data first, images                              *)
(***************************************************************************)

\* the value the closing loop of extract_detail makes of v
cleaned(v) == IF v = NoneVal \/ IsNA(v) THEN "" ELSE Strip(v)

\* C29: for title, description, price, images and seller name, the value the
\* structured data of the page gives is the one in the record extract_detail
\* returns (normalised like every field); what the selectors find is used only
\* for a field the structured data left out; a seller name of the structured
\* data is never replaced by the seller name the selectors find.
C29_StructuredFirst ==
    (fnOp = "extract_detail" /\ fnIn.page.ready) =>
        \A f \in {"Title", "Description", "Price", "Images", "Seller Name"} :
            (f \in DOMAIN fnIn.page.jsonld /\ f \in DOMAIN fnOut.detail)
                => fnOut.detail[f] = cleaned(fnIn.page.jsonld[f])

\* C30: the record a successful extract_detail returns holds the images of the
\* listing under "Images": those the structured data gives, else every image
\* URL found in the img and source elements, each once, in sorted order.
C30_ImagesInRecord ==
    (fnOp = "extract_detail" /\ fnIn.page.ready /\ fnOut.result = "ok") =>
        /\ "Images" \in DOMAIN fnOut.detail
        /\ fnOut.detail["Images"] =
             (IF "Images" \in DOMAIN fnIn.page.jsonld THEN fnIn.page.jsonld["Images"]
              ELSE IF fnIn.page.imgs = <<>> THEN ""
              ELSE "https://cdn/a.jpg, https://cdn/b.jpg")

(***************************************************************************)
(* C31: politeness pacing of the crawl                                     *)
(***************************************************************************)

\* C31: in the detail phase every extraction is followed by exactly one
\* politeness delay before the next extraction of the location, the long rest
\* delay exactly when the 1-based index of the item just processed is a multiple
\* of the configured frequency and the short delay otherwise; and between any
\* two consecutive list-page loads of a location there is a politeness delay.
C31_PolitePacing ==
    \A i \in DOMAIN paceLog :
        /\ paceLog[i].ev = "extract" =>
              /\ i < Len(paceLog)
              /\ paceLog[i + 1] = delay(IF paceLog[i].n % long_pause_frequency = 0
                                        THEN "long" ELSE "short")
              /\ i + 2 <= Len(paceLog) => paceLog[i + 2] = extraction(paceLog[i].n + 1)
        /\ (paceLog[i].ev = "page" /\ \E j \in (i + 1)..Len(paceLog) : paceLog[j].ev = "page") =>
              /\ paceLog[i + 1].ev = "delay"
              /\ paceLog[i + 2] = page_load(paceLog[i].n + 1)

\* a location whose second page was loaded after a delay and whose detail phase
\* has rested after an item and paused briefly after another
C31_Witness ==
    /\ long_pause_frequency = ShortFrequency
    /\ \E i \in DOMAIN paceLog : paceLog[i] = page_load(2)
    /\ \E i \in DOMAIN paceLog : paceLog[i] = delay("long") /\ paceLog[i - 1].ev = "extract"
    /\ \E i \in DOMAIN paceLog : paceLog[i] = delay("short") /\ paceLog[i - 1].ev = "extract"

(***************************************************************************)
(* C32: light browsing between contact requests                            *)
(***************************************************************************)

\* the light browsing of the request loop: the entries of browsing.at that
\* follow a contact request
between_requests == SelectSeq(browsing.at, LAMBDA n : n > 0)

\* C32: during enrich light simulated browsing happens only while a browser
\* session is active, and any two consecutive light-browsing actions are
\* separated by at least 8 and at most 12 contact requests.
C32_BrowsingSpacing ==
    /\ browsing.at # <<>> => acq.opened
    /\ between_requests # <<>> => acq.login = "detected"
    /\ \A k \in 2..Len(between_requests) :
          between_requests[k] - between_requests[k - 1] \in BrowseMin..BrowseMax

(***************************************************************************)
(* C33..C35: the browser registry and the per-thread driver                *)
(***************************************************************************)

\* the call of thread t has ended
call_over(t) == thr[t].pc = "idle" /\ thr[t].outcome # "none"

\* C33: build_driver tries the primary creation strategy once and, only if it
\* fails, the fallback strategy exactly once; it raises the creation error only
\* when both failed, and every session it returns, from either strategy, is a
\* member of _active_drivers at the moment it is returned.
C33_PrimaryThenFallback ==
    \A t \in Threads :
        LET c == thr[t] IN
        /\ Len(c.tries) <= 2
        /\ Len(c.tries) >= 1 => c.tries[1].strategy = "primary"
        /\ Len(c.tries) = 2 => ~c.tries[1].ok /\ c.tries[2].strategy = "fallback"
        /\ c.pc = "fallback" <=> (Len(c.tries) = 1 /\ ~c.tries[1].ok)
        /\ call_over(t) =>
              /\ c.outcome = "raised" <=> (Len(c.tries) = 2 /\ ~c.tries[2].ok)
              /\ c.outcome = "returned" =>
                    /\ c.tries[Len(c.tries)].ok
                    /\ c.registered
                    /\ c.got \in active_drivers

\* one call has returned the browser of the fallback strategy, registered, and
\* another call has raised after both strategies failed
C33_Witness ==
    \E t, u \in Threads :
        /\ call_over(t) /\ thr[t].outcome = "returned" /\ Len(thr[t].tries) = 2
        /\ thr[t].got \in active_drivers
        /\ call_over(u) /\ thr[u].outcome = "raised"

\* the browsers a build_driver call has started and is about to register
being_registered == {thr[t].drv : t \in {u \in Threads : thr[u].pc = "register"}}

\* C34: under every interleaving of build_driver and cleanup_all_drivers calls
\* of several threads, no browser is left both running and out of
\* _active_drivers (a browser that was started is either quit by a
\* cleanup_all_drivers or a member of the set), and when cleanup_all_drivers
\* completes with no build_driver in progress the set is empty.
C34_NoUnregisteredSession ==
    /\ live \subseteq active_drivers \cup being_registered
    /\ \A t \in Threads :
          (call_over(t) /\ thr[t].op = "cleanup_all_drivers"
             /\ \A u \in Threads : thr[u].pc = "idle" /\ thr[u].op # "build_driver"
                                     /\ thr[u].op # "get_thread_driver")
          => active_drivers = {}

\* C35: under every interleaving of get_thread_driver calls of several workers
\* two different workers never receive the same session; a worker receives the
\* same session on every request while that session is alive, and a new session
\* is created for it only when it has none or its session no longer responds.
C35_OneSessionPerWorker ==
    /\ \A t, u \in Threads : t # u => thr[t].seen \cap thr[u].seen = {}
    /\ \A t \in Threads :
          LET c == thr[t] IN
          c.op = "get_thread_driver" =>
              /\ (c.had # 0 /\ c.had_alive) =>
                    c.tries = <<>> /\ c.pc = "idle" /\ c.got = c.had
              /\ c.tries # <<>> => c.had = 0 \/ ~c.had_alive
              /\ (call_over(t) /\ c.outcome = "returned" /\ c.tries # <<>>) =>
                    c.got # c.had /\ thread_local[t] = c.got

\* both workers hold a session of their own; one of them was handed its live
\* session again, the other got a new one after its session had stopped
\* responding
C35_Witness ==
    \E t, u \in Threads :
        /\ t # u
        /\ call_over(t) /\ thr[t].op = "get_thread_driver"
        /\ thr[t].had # 0 /\ thr[t].had_alive /\ thr[t].got = thr[t].had
        /\ call_over(u) /\ thr[u].op = "get_thread_driver" /\ thr[u].outcome = "returned"
        /\ thr[u].had # 0 /\ ~thr[u].had_alive /\ thr[u].got # thr[u].had

(***************************************************************************)
(* C37: the single-run guard of the dashboard                              *)
(***************************************************************************)

\* the requests that were let through and whose task has not ended
admitted ==
    {r \in Requests : req[r] = "checked" \/ task[r] \in {"spawned", "running"}}

\* C37: at most one scraper task runs at any time: a start request that arrives
\* while a task is running, or has been accepted and not yet marked running, is
\* rejected with "Already running" and starts no second task.
C37_SingleRun == Cardinality(admitted) <= 1

(***************************************************************************)
(* C36, C38: the records of one location                                   *)
(***************************************************************************)

\* C36: no two records returned for one location share the same link, even
\* when the same listing appears on two different result pages of the location.
C36_UniqueLinks ==
    \A i, j \in DOMAIN all_results :
        (i # j /\ all_results[i]["Location_Key"] = all_results[j]["Location_Key"])
        => all_results[i]["Link"] # all_results[j]["Link"]

\* the page loop of location k ended with a page that raised
discovery_raised(k) ==
    pageLog[k] # <<>> /\ pageLog[k][Len(pageLog[k])].result = "raise"

\* C38: if the discovery of a location raises (such as a navigation error on a
\* page after the first), the location contributes no record to the result even
\* though its earlier pages had given listings, an error progress message
\* naming the location is emitted, and every later location is still crawled.
C38_DiscoveryFailureIsolated ==
    \A k \in LocationKeys :
        discovery_raised(k) =>
            /\ count_for(all_results, k) = 0
            /\ \E i \in DOMAIN progressLog : progressLog[i] = location_error(k)
            /\ k # curLoc => locOutcome[k] = "raised"
            /\ pc = "done" =>
                  \A k2 \in LocationKeys :
                      loc_pos(k2) > loc_pos(k) => locOutcome[k2] # "none"

\* the second page of the first location raised after its first page had given
\* listings; the run ended with the records of the second location only
C38_Witness ==
    \E k, k2 \in LocationKeys :
        /\ pc = "done"
        /\ discovery_raised(k) /\ Len(pageLog[k]) > 1 /\ pageLog[k][1].count > 0
        /\ loc_pos(k2) > loc_pos(k) /\ locOutcome[k2] = "returned"
        /\ all_results # <<>> /\ count_for(all_results, k2) = Len(all_results)

====
